---------------------------- MODULE Spec2Model ----------------------------
(***************************************************************************)
(* Model of the querybuilder package of setiadijoe/go-utils: the dialects, *)
(* the Condition tree and the Select / Insert / Update / Delete statement  *)
(* builders with their terminal ToSQL operation.                           *)
(*                                                                         *)
(* A Go string that the code only copies is a TLA+ string; a string the    *)
(* code inspects or rewrites (identifiers, raw SQL text) is a sequence of  *)
(* one-character strings.  SQL text is the sequence of the pieces the code *)
(* writes to its strings.Builder, in order.  A placeholder piece carries,  *)
(* in the history field arg, the value that was appended to the argument   *)
(* list at the place where the placeholder was written.                    *)
(***************************************************************************)
EXTENDS Integers, Sequences, FiniteSets, TLC

VARIABLES dialect, kind, subs, sel, ins, upd, del, calls, renders, panicked,
          out, prev, cond, cpos, cres, fn, input, ret, made

vars == <<dialect, kind, subs, sel, ins, upd, del, calls, renders, panicked,
          out, prev, cond, cpos, cres, fn, input, ret, made>>

-----------------------------------------------------------------------------
(* Bounds of the model *)

MaxCalls == 2

MaxRenders == 2

MaxKids == 2

MaxRows == 3

MaxIndex == 6

-----------------------------------------------------------------------------
(* Go values of type any *)

NoArg == [tag |-> "none", n |-> 0, cs |-> <<>>]

NilV == [tag |-> "nil", n |-> 0, cs |-> <<>>]

IntV(n) == [tag |-> "int", n |-> n, cs |-> <<>>]

StrV(cs) == [tag |-> "string", n |-> 0, cs |-> cs]

SliceV(n) == [tag |-> "slice", n |-> n, cs |-> <<>>]

BuilderV(id) == [tag |-> "builder", n |-> id, cs |-> <<>>]

rawSQL(cs, safe) == [tag |-> "rawSQL", n |-> IF safe THEN 1 ELSE 0, cs |-> cs]

-----------------------------------------------------------------------------
(* Raw SQL values and the keyword screen of Raw *)

LowerLetters ==
  <<"a", "b", "c", "d", "e", "f", "g", "h", "i", "j", "k", "l", "m",
    "n", "o", "p", "q", "r", "s", "t", "u", "v", "w", "x", "y", "z">>

UpperLetters ==
  <<"A", "B", "C", "D", "E", "F", "G", "H", "I", "J", "K", "L", "M",
    "N", "O", "P", "Q", "R", "S", "T", "U", "V", "W", "X", "Y", "Z">>

DigitChars == {"0", "1", "2", "3", "4", "5", "6", "7", "8", "9"}

ToUpper(c) ==
  IF \E i \in DOMAIN LowerLetters : LowerLetters[i] = c
  THEN UpperLetters[CHOOSE i \in DOMAIN LowerLetters : LowerLetters[i] = c]
  ELSE c

IsWordChar(c) ==
  \/ \E i \in DOMAIN LowerLetters : LowerLetters[i] = c \/ UpperLetters[i] = c
  \/ c \in DigitChars
  \/ c = "_"

Keywords ==
  {<<"D", "R", "O", "P">>, <<"D", "E", "L", "E", "T", "E">>, <<"I", "N", "S", "E", "R", "T">>,
   <<"U", "P", "D", "A", "T", "E">>, <<"A", "L", "T", "E", "R">>}

(* keyword kw stands at position i of cs, in any letter case, as a whole word *)
WordAt(cs, kw, i) ==
  /\ i + Len(kw) - 1 <= Len(cs)
  /\ \A j \in 1..Len(kw) : ToUpper(cs[i + j - 1]) = kw[j]
  /\ (i = 1 \/ ~IsWordChar(cs[i - 1]))
  /\ (i + Len(kw) - 1 = Len(cs) \/ ~IsWordChar(cs[i + Len(kw)]))

(* variant: the keywords matched without the word boundaries *)
sqlInjectionRegexNoBoundary(cs) ==
  \E kw \in Keywords : \E i \in 1..Len(cs) :
    /\ i + Len(kw) - 1 <= Len(cs)
    /\ \A j \in 1..Len(kw) : ToUpper(cs[i + j - 1]) = kw[j]

sqlInjectionRegexMatchString(cs) ==
  \E kw \in Keywords : \E i \in 1..Len(cs) : WordAt(cs, kw, i)

Panic == [tag |-> "panic", n |-> 0, cs |-> <<>>]

Raw(cs) == IF sqlInjectionRegexMatchString(cs) THEN Panic ELSE rawSQL(cs, FALSE)

UnsafeRaw(cs) == rawSQL(cs, TRUE)

RawPrefix == <<"R", "A", "W", ":">>

HasPrefix(cs, prefix) ==
  Len(cs) >= Len(prefix) /\ SubSeq(cs, 1, Len(prefix)) = prefix

TrimPrefix(cs, prefix) ==
  IF HasPrefix(cs, prefix) THEN SubSeq(cs, Len(prefix) + 1, Len(cs)) ELSE cs

-----------------------------------------------------------------------------
(* SQL text: the pieces written, in order *)

Lit(s) == IF s = "" THEN <<>> ELSE <<[k |-> "lit", s |-> s, cs |-> <<>>, n |-> 0, arg |-> NoArg]>>

Txt(cs) == IF cs = <<>> THEN <<>> ELSE <<[k |-> "txt", s |-> "", cs |-> cs, n |-> 0, arg |-> NoArg]>>

Ph(s, n) == <<[k |-> "ph", s |-> s, cs |-> <<>>, n |-> n, arg |-> NoArg]>>

RECURSIVE ReplaceAll(_, _, _)
ReplaceAll(cs, old, new) ==
  IF cs = <<>> THEN <<>>
  ELSE (IF Head(cs) = old THEN new ELSE <<Head(cs)>>) \o ReplaceAll(Tail(cs), old, new)

RECURSIVE Join(_, _)
Join(parts, sep) ==
  IF parts = <<>> THEN <<>>
  ELSE IF Len(parts) = 1 THEN parts[1]
  ELSE parts[1] \o sep \o Join(Tail(parts), sep)

RECURSIVE Flatten(_)
Flatten(seqs) == IF seqs = <<>> THEN <<>> ELSE Head(seqs) \o Flatten(Tail(seqs))

-----------------------------------------------------------------------------
(* Dialects *)

Dialects == {"mysql", "postgres", "sqlite", "sqlserver", "oracle"}

Numbered == {"postgres", "sqlserver", "oracle"}

Placeholder(d, index) ==
  CASE d = "mysql" -> Ph("?", 0)
    [] d = "sqlite" -> Ph("?", 0)
    [] d = "postgres" -> Ph("$", index + 1)
    [] d = "sqlserver" -> Ph("@p", index + 1)
    [] d = "oracle" -> Ph(":", index + 1)

(* the token of one placeholder: the marker and, for the numbered dialects, *)
(* the number printed after it                                             *)
placeholderToken(d, n) ==
  CASE d = "mysql" -> Ph("?", 0)
    [] d = "sqlite" -> Ph("?", 0)
    [] d = "postgres" -> Ph("$", n)
    [] d = "sqlserver" -> Ph("@p", n)
    [] d = "oracle" -> Ph(":", n)

(* the loop of Placeholder in the builder directory: i runs over range idx *)
RECURSIVE builderPlaceholderLoop(_, _, _)
builderPlaceholderLoop(d, i, idx) ==
  IF i >= idx THEN <<>>
  ELSE placeholderToken(d, i + 1) \o Lit(", ") \o builderPlaceholderLoop(d, i + 1, idx)

(* Placeholder as the dialects of the builder directory define it *)
builderPlaceholder(d, index) ==
  builderPlaceholderLoop(d, 0, index - 1) \o placeholderToken(d, index)

(* the grave accent character, which a TLA+ string cannot hold *)
Backtick == "GRAVE"

EscapeIdentifier(d, ident) ==
  CASE d = "mysql" -> Txt(<<Backtick>> \o ReplaceAll(ident, Backtick, <<Backtick, Backtick>>) \o <<Backtick>>)
    [] d = "sqlserver" -> Txt(<<"[">> \o ReplaceAll(ident, "]", <<"]", "]">>) \o <<"]">>)
    [] OTHER -> Txt(<<"\"">> \o ReplaceAll(ident, "\"", <<"\"", "\"">>) \o <<"\"">>)

(* the placeholder written for a value that is appended to the arguments *)
Bind(d, index, v) ==
  [i \in 1..Len(Placeholder(d, index)) |-> [Placeholder(d, index)[i] EXCEPT !.arg = v]]

-----------------------------------------------------------------------------
(* Conditions *)

newCondition(column, operator, value, valueType) ==
  [t |-> "base", column |-> column, operator |-> operator, value |-> value,
   valueType |-> valueType]

Eq(column, value) == newCondition(column, "=", value, "value")

Gt(column, value) == newCondition(column, ">", value, "value")

In(column, n) == newCondition(column, "IN", SliceV(n), "value")

NotIn(column, n) == newCondition(column, "NOT IN", SliceV(n), "value")

IsNull(column) == newCondition(column, "IS NULL", NilV, "value")

IsNotNull(column) == newCondition(column, "IS NOT NULL", NilV, "value")

ColumnEq(column1, column2) == newCondition(column1, "=", StrV(column2), "column")

EqSubquery(column, id) == newCondition(column, "=", BuilderV(id), "subquery")

Between(column, from, to) == [t |-> "between", column |-> column, from |-> from, to |-> to]

And(conditions) == [t |-> "logical", operator |-> "AND", conditions |-> conditions]

Or(conditions) == [t |-> "logical", operator |-> "OR", conditions |-> conditions]

-----------------------------------------------------------------------------
(* Rendering.  A render returns, besides what the Go function returns, the *)
(* objects it changed through pointers: the counter argPos points to and   *)
(* the embedded builders H (each owns a paramCount).                       *)

NoSubquery == [builder |-> 0, alias |-> <<>>]

ErrNoFrom == "no table or subquery specified for FROM clause"

(* what one ToSQL has written so far: the strings.Builder, the arguments,  *)
(* the builder's counter, the embedded builders and the error it ended on  *)
NewQuery(paramCount, H) ==
  [sql |-> <<>>, args |-> <<>>, err |-> "", argPos |-> paramCount, H |-> H]

(* query.WriteString(text) *)
Write(q, text) == [q EXCEPT !.sql = @ \o text]

(* query.WriteString(text) with the arguments appended and the counter moved *)
WriteBound(q, text, args, argPos, H) ==
  [q EXCEPT !.sql = @ \o text, !.args = @ \o args, !.argPos = argPos, !.H = H]

(* variant: the text and arguments written so far are returned with the error *)
FailKeepsText(q, err, H) == [q EXCEPT !.err = err, !.H = H]

(* return "", nil, err *)
Fail(q, err, H) == [q EXCEPT !.sql = <<>>, !.args = <<>>, !.err = err, !.H = H]

(* the list separator before the i-th item *)
Sep(i) == IF i > 1 THEN Lit(", ") ELSE <<>>

(* what Condition.ToSQL returns and leaves in *argPos *)
Fragment(sql, args, argPos, H) == [sql |-> sql, args |-> args, argPos |-> argPos, H |-> H]

RECURSIVE ConditionToSQL(_, _, _, _)
RECURSIVE selectBuilderToSQL(_, _, _)

(* the embedded builder keeps the counter its ToSQL advanced *)
builderResult(id, r) ==
  [sql |-> r.sql, args |-> r.args, err |-> r.err, H |-> [r.H EXCEPT ![id] = r.sb]]

(* SQLBuilder.ToSQL on the builder held in slot id *)
SQLBuilderToSQL(id, d, H) == builderResult(id, selectBuilderToSQL(H[id], d, H))

subqueryWrap(r) ==
  IF r.err # ""
  THEN [sql |-> <<>>, args |-> <<>>, err |-> r.err, H |-> r.H]
  ELSE [sql |-> Lit("(") \o r.sql \o Lit(")"), args |-> r.args, err |-> "", H |-> r.H]

(* subquery.ToSQL on the builder held in slot id *)
subqueryToSQL(id, d, H) == subqueryWrap(SQLBuilderToSQL(id, d, H))

baseHead(c, d) == EscapeIdentifier(d, c.column) \o Lit(" ") \o Lit(c.operator)

(* variant: the placeholders of the embedded builder move the counter *)
baseSubqueryCounts(c, d, argPos, r) ==
  Fragment(baseHead(c, d) \o Lit(" ") \o Lit("(") \o r.sql \o Lit(")"), r.args,
           argPos + Len(r.args), r.H)

(* the subquery case: the error of the embedded ToSQL is dropped *)
baseSubquery(c, d, argPos, r) ==
  Fragment(baseHead(c, d) \o Lit(" ") \o Lit("(") \o r.sql \o Lit(")"), r.args, argPos, r.H)

baseConditionToSQL(c, d, argPos, H) ==
  IF c.operator = "IS NULL" \/ c.operator = "IS NOT NULL"
  THEN Fragment(baseHead(c, d), <<>>, argPos, H)
  ELSE CASE c.valueType = "column" ->
              Fragment(baseHead(c, d) \o Lit(" ") \o EscapeIdentifier(d, c.value.cs),
                       <<>>, argPos, H)
         [] c.valueType = "subquery" ->
              baseSubquery(c, d, argPos, SQLBuilderToSQL(c.value.n, d, H))
         [] OTHER ->
              Fragment(baseHead(c, d) \o Lit(" ") \o Bind(d, argPos, c.value),
                       <<c.value>>, argPos + 1, H)

(* variant: the two bounds appended to the arguments in the opposite order *)
betweenConditionToSQLSwapped(c, d, argPos, H) ==
  Fragment(EscapeIdentifier(d, c.column) \o Lit(" BETWEEN ") \o Bind(d, argPos, c.from)
             \o Lit(" AND ") \o Bind(d, argPos + 1, c.to),
           <<c.to, c.from>>, argPos + 2, H)

betweenConditionToSQL(c, d, argPos, H) ==
  Fragment(EscapeIdentifier(d, c.column) \o Lit(" BETWEEN ") \o Bind(d, argPos, c.from)
             \o Lit(" AND ") \o Bind(d, argPos + 1, c.to),
           <<c.from, c.to>>, argPos + 2, H)

(* the loop variables of a loop over conditions: parts and the arguments *)
NoParts(argPos, H) == [parts |-> <<>>, args |-> <<>>, argPos |-> argPos, H |-> H]

AddPart(acc, r) ==
  [parts |-> Append(acc.parts, r.sql), args |-> acc.args \o r.args, argPos |-> r.argPos,
   H |-> r.H]

(* the loop of logicalCondition.ToSQL *)
RECURSIVE logicalParts(_, _, _)
logicalParts(conditions, d, acc) ==
  IF conditions = <<>> THEN acc
  ELSE logicalParts(Tail(conditions), d,
                    AddPart(acc, ConditionToSQL(Head(conditions), d, acc.argPos, acc.H)))

(* variant: parentheses around a group of one part too *)
logicalWrapAlways(parts, operator) ==
  Lit("(") \o Join(parts, Lit(" " \o operator \o " ")) \o Lit(")")

logicalWrap(parts, operator) ==
  (IF Len(parts) > 1 THEN Lit("(") ELSE <<>>)
  \o Join(parts, Lit(" " \o operator \o " "))
  \o (IF Len(parts) > 1 THEN Lit(")") ELSE <<>>)

logicalResult(operator, r) == Fragment(logicalWrap(r.parts, operator), r.args, r.argPos, r.H)

logicalConditionToSQL(c, d, argPos, H) ==
  IF Len(c.conditions) = 0
  THEN Fragment(<<>>, <<>>, argPos, H)
  ELSE logicalResult(c.operator, logicalParts(c.conditions, d, NoParts(argPos, H)))

ConditionToSQL(c, d, argPos, H) ==
  CASE c.t = "base" -> baseConditionToSQL(c, d, argPos, H)
    [] c.t = "between" -> betweenConditionToSQL(c, d, argPos, H)
    [] c.t = "logical" -> logicalConditionToSQL(c, d, argPos, H)

(* the loop of buildConditions *)
RECURSIVE buildConditionsParts(_, _, _)
buildConditionsParts(conditions, d, acc) ==
  IF conditions = <<>> THEN acc
  ELSE buildConditionsParts(Tail(conditions), d,
                            AddPart(acc, ConditionToSQL(Head(conditions), d, acc.argPos, acc.H)))

buildConditionsResult(r) == Fragment(Join(r.parts, Lit(" AND ")), r.args, r.argPos, r.H)

buildConditions(conditions, d, paramCount, H) ==
  buildConditionsResult(buildConditionsParts(conditions, d, NoParts(paramCount, H)))

(* a WHERE or HAVING keyword followed by the conditions r *)
writeConditions(q, keyword, r) ==
  WriteBound(q, Lit(keyword) \o r.sql, r.args, r.argPos, r.H)

-----------------------------------------------------------------------------
(* Select builder *)

NoLimit == <<>>

newSelectBuilder(columns) ==
  [columns |-> columns, distinct |-> FALSE, table |-> <<>>, joins |-> <<>>,
   where |-> <<>>, groupBy |-> <<>>, having |-> <<>>, orderBy |-> <<>>,
   limit |-> NoLimit, offset |-> NoLimit, paramCount |-> 0, subquery |-> NoSubquery]

RECURSIVE CommaTxt(_)
CommaTxt(names) ==
  IF names = <<>> THEN <<>>
  ELSE IF Len(names) = 1 THEN Txt(names[1])
  ELSE Txt(names[1]) \o Lit(", ") \o CommaTxt(Tail(names))

aliasText(alias) == IF alias # <<>> THEN Lit(" AS ") \o Txt(alias) ELSE <<>>

selectBuildSelectClause(sb, q) ==
  Write(q, Lit("SELECT ")
           \o (IF sb.distinct THEN Lit("DISTINCT ") ELSE <<>>)
           \o (IF Len(sb.columns) = 0 THEN Lit("*") ELSE CommaTxt(sb.columns)))

fromSubquery(sb, q, r) ==
  IF r.err # ""
  THEN Fail(q, r.err, r.H)
  ELSE WriteBound(q, Lit(" FROM ") \o r.sql \o aliasText(sb.subquery.alias), r.args,
                  q.argPos, r.H)

selectBuildFromClause(sb, d, q) ==
  IF sb.subquery # NoSubquery
  THEN fromSubquery(sb, q, subqueryToSQL(sb.subquery.builder, d, q.H))
  ELSE Write(q, Lit(" FROM ") \o Txt(sb.table))

(* what a JOIN joins: the text of a subquery or the table name *)
joinTarget(j, d, H) ==
  IF j.subquery # NoSubquery
  THEN subqueryToSQL(j.subquery.builder, d, H)
  ELSE [sql |-> Txt(j.table), args |-> <<>>, err |-> "", H |-> H]

(* variant: a JOIN subquery that fails to render is written as empty text *)
joinClauseSwallow(j, q, r) ==
  WriteBound(q, Lit(" " \o j.joinType \o " JOIN ") \o r.sql
                \o (IF j.subquery # NoSubquery THEN aliasText(j.subquery.alias) ELSE <<>>)
                \o Lit(" ON ") \o Lit(j.condition),
             r.args, q.argPos, r.H)

(* one turn of the loop of buildJoinClauses *)
joinClause(j, q, r) ==
  IF r.err # ""
  THEN Fail(q, r.err, r.H)
  ELSE WriteBound(q, Lit(" " \o j.joinType \o " JOIN ") \o r.sql
                     \o (IF j.subquery # NoSubquery THEN aliasText(j.subquery.alias) ELSE <<>>)
                     \o Lit(" ON ") \o Lit(j.condition),
                  r.args, q.argPos, r.H)

RECURSIVE selectBuildJoinClauses(_, _, _)
selectBuildJoinClauses(joins, d, q) ==
  IF joins = <<>> \/ q.err # "" THEN q
  ELSE selectBuildJoinClauses(Tail(joins), d,
                              joinClause(Head(joins), q, joinTarget(Head(joins), d, q.H)))

selectBuildWhereClause(sb, d, q) ==
  IF Len(sb.where) = 0 THEN q
  ELSE writeConditions(q, " WHERE ", buildConditions(sb.where, d, q.argPos, q.H))

(* no return follows the test of an empty list: the keyword is always written *)
selectBuildGroupByClause(sb, q) == Write(q, Lit(" GROUP BY ") \o CommaTxt(sb.groupBy))

selectBuildHavingClause(sb, d, q) ==
  IF Len(sb.having) = 0 THEN q
  ELSE writeConditions(q, " HAVING ", buildConditions(sb.having, d, q.argPos, q.H))

RECURSIVE OrderList(_)
OrderList(orderBy) ==
  IF orderBy = <<>> THEN <<>>
  ELSE Txt(Head(orderBy).column) \o Lit(" ") \o Lit(Head(orderBy).direction)
       \o (IF Len(orderBy) > 1 THEN Lit(", ") ELSE <<>>) \o OrderList(Tail(orderBy))

selectBuildOrderByClause(sb, q) ==
  IF Len(sb.orderBy) = 0 THEN q ELSE Write(q, Lit(" ORDER BY ") \o OrderList(sb.orderBy))

(* variant: the LIMIT placeholder written without appending its value *)
selectBuildLimitClauseDropArg(sb, d, q) ==
  IF sb.limit = NoLimit THEN q
  ELSE WriteBound(q, Lit(" LIMIT ") \o Bind(d, q.argPos, IntV(sb.limit[1])),
                  <<>>, q.argPos + 1, q.H)

selectBuildLimitClause(sb, d, q) ==
  IF sb.limit = NoLimit THEN q
  ELSE WriteBound(q, Lit(" LIMIT ") \o Bind(d, q.argPos, IntV(sb.limit[1])),
                  <<IntV(sb.limit[1])>>, q.argPos + 1, q.H)

selectBuildOffsetClause(sb, d, q) ==
  IF sb.offset = NoLimit THEN q
  ELSE WriteBound(q, Lit(" OFFSET ") \o Bind(d, q.argPos, IntV(sb.offset[1])),
                  <<IntV(sb.offset[1])>>, q.argPos + 1, q.H)

(* variant: the HAVING clause written after the ORDER BY clause *)
selectClausesHavingLate(sb, d, q) ==
  selectBuildOffsetClause(sb, d,
    selectBuildLimitClause(sb, d,
      selectBuildHavingClause(sb, d,
        selectBuildOrderByClause(sb,
          selectBuildGroupByClause(sb,
            selectBuildWhereClause(sb, d, q))))))

(* ToSQL from the WHERE clause on *)
selectClauses(sb, d, q) ==
  selectBuildOffsetClause(sb, d,
    selectBuildLimitClause(sb, d,
      selectBuildOrderByClause(sb,
        selectBuildHavingClause(sb, d,
          selectBuildGroupByClause(sb,
            selectBuildWhereClause(sb, d, q))))))

(* ToSQL after buildJoinClauses: its error is returned *)
selectAfterJoins(sb, d, q) == IF q.err # "" THEN q ELSE selectClauses(sb, d, q)

(* ToSQL after buildFromClause: its error is returned *)
selectAfterFrom(sb, d, q) ==
  IF q.err # "" THEN q ELSE selectAfterJoins(sb, d, selectBuildJoinClauses(sb.joins, d, q))

(* variant: the counter the clauses advanced is not kept in the builder *)
selectResultCounterReset(sb, q) ==
  [sql |-> q.sql, args |-> q.args, err |-> q.err, sb |-> sb, H |-> q.H]

selectResult(sb, q) ==
  [sql |-> q.sql, args |-> q.args, err |-> q.err,
   sb |-> [sb EXCEPT !.paramCount = q.argPos], H |-> q.H]

selectBuilderToSQL(sb, d, H) ==
  IF sb.table = <<>> /\ sb.subquery = NoSubquery
  THEN [sql |-> <<>>, args |-> <<>>, err |-> ErrNoFrom, sb |-> sb, H |-> H]
  ELSE selectResult(sb,
         selectAfterFrom(sb, d,
           selectBuildFromClause(sb, d,
             selectBuildSelectClause(sb, NewQuery(sb.paramCount, H)))))

-----------------------------------------------------------------------------
(* Insert builder *)

NoConflict == [set |-> FALSE, Target |-> <<>>, DoNothing |-> FALSE, DoUpdate |-> <<>>]

ConflictAction(target, doNothing, doUpdate) ==
  [set |-> TRUE, Target |-> target, DoNothing |-> doNothing, DoUpdate |-> doUpdate]

newInsertBuilder(table) ==
  [table |-> table, columns |-> <<>>, values |-> <<>>, useDefaults |-> FALSE,
   fromSelect |-> 0, conflict |-> NoConflict, returning |-> <<>>, paramCounter |-> 0]

ErrNoTable == "no table specified"

ErrNoMethod == "no values, select query, or DEFAULT VALUES specified"

ErrManyMethods == "cannot specify multiple insertion methods (VALUES, FROM SELECT, DEFAULT VALUES)"

ErrArity == "number of values doesn't match columns"

insertionMethods(ib) ==
  (IF Len(ib.values) > 0 THEN 1 ELSE 0)
  + (IF ib.fromSelect # 0 THEN 1 ELSE 0)
  + (IF ib.useDefaults THEN 1 ELSE 0)

(* variant: several insertion methods at once are accepted *)
validateInsertManyModes(ib) ==
  IF ib.table = <<>> THEN ErrNoTable
  ELSE IF insertionMethods(ib) = 0 THEN ErrNoMethod
  ELSE IF Len(ib.columns) > 0 /\ Len(ib.values) > 0
          /\ \E i \in 1..Len(ib.values) : Len(ib.values[i]) # Len(ib.columns)
       THEN ErrArity
  ELSE ""

(* variant: only the first and the last row are compared with the columns *)
validateInsertEndRows(ib) ==
  IF ib.table = <<>> THEN ErrNoTable
  ELSE IF insertionMethods(ib) = 0 THEN ErrNoMethod
  ELSE IF insertionMethods(ib) > 1 THEN ErrManyMethods
  ELSE IF Len(ib.columns) > 0 /\ Len(ib.values) > 0
          /\ \E i \in {1, Len(ib.values)} : Len(ib.values[i]) # Len(ib.columns)
       THEN ErrArity
  ELSE ""
validateInsert(ib) ==
  IF ib.table = <<>> THEN ErrNoTable
  ELSE IF insertionMethods(ib) = 0 THEN ErrNoMethod
  ELSE IF insertionMethods(ib) > 1 THEN ErrManyMethods
  ELSE IF Len(ib.columns) > 0 /\ Len(ib.values) > 0
          /\ \E i \in 1..Len(ib.values) : Len(ib.values[i]) # Len(ib.columns)
       THEN ErrArity
  ELSE ""

insertBuildColumns(ib, q) ==
  IF Len(ib.columns) > 0 /\ ~ib.useDefaults
  THEN Write(q, Lit(" (") \o CommaTxt(ib.columns) \o Lit(")"))
  ELSE q

(* variant: a raw value moves the counter like a bound value *)
RECURSIVE insertRowRawCounts(_, _, _, _)
insertRowRawCounts(valSet, i, d, q) ==
  IF i > Len(valSet) THEN q
  ELSE insertRowRawCounts(valSet, i + 1, d,
                          IF valSet[i].tag = "rawSQL"
                          THEN WriteBound(q, Sep(i) \o Txt(valSet[i].cs), <<>>, q.argPos + 1, q.H)
                          ELSE WriteBound(q, Sep(i) \o Bind(d, q.argPos, valSet[i]),
                                          <<valSet[i]>>, q.argPos + 1, q.H))

(* one VALUES row, from its i-th value on *)
RECURSIVE insertRow(_, _, _, _)
insertRow(valSet, i, d, q) ==
  IF i > Len(valSet) THEN q
  ELSE insertRow(valSet, i + 1, d,
                 IF valSet[i].tag = "rawSQL"
                 THEN Write(q, Sep(i) \o Txt(valSet[i].cs))
                 ELSE WriteBound(q, Sep(i) \o Bind(d, q.argPos, valSet[i]), <<valSet[i]>>,
                                 q.argPos + 1, q.H))

(* the VALUES rows, from row valIdx on *)
RECURSIVE insertRows(_, _, _, _)
insertRows(values, valIdx, d, q) ==
  IF valIdx > Len(values) THEN q
  ELSE insertRows(values, valIdx + 1, d,
                  Write(insertRow(values[valIdx], 1, d, Write(q, Sep(valIdx) \o Lit("("))),
                        Lit(")")))

(* variant: the error of the embedded ToSQL is not returned *)
insertFromSelectSwallow(q, r) == WriteBound(q, Lit(" ") \o r.sql, r.args, q.argPos, r.H)

(* the FROM SELECT case, given what the embedded ToSQL returned *)
insertFromSelect(q, r) ==
  IF r.err # ""
  THEN Fail(q, r.err, r.H)
  ELSE WriteBound(q, Lit(" ") \o r.sql, r.args, q.argPos, r.H)

buildValuesOrSelectOrDefault(ib, d, q) ==
  CASE ib.useDefaults -> Write(q, Lit(" DEFAULT VALUES"))
    [] ~ib.useDefaults /\ ib.fromSelect # 0 ->
         insertFromSelect(q, SQLBuilderToSQL(ib.fromSelect, d, q.H))
    [] OTHER -> insertRows(ib.values, 1, d, Write(q, Lit(" VALUES ")))

(* the range over the DoUpdate map, in the order ord the runtime picks *)
RECURSIVE doUpdateSet(_, _, _, _, _)
doUpdateSet(doUpdate, ord, i, d, q) ==
  IF i > Len(ord) THEN q
  ELSE doUpdateSet(doUpdate, ord, i + 1, d,
                   WriteBound(q, Sep(i) \o Txt(ord[i]) \o Lit(" = ")
                                 \o Bind(d, q.argPos, doUpdate[ord[i]]),
                              <<doUpdate[ord[i]]>>, q.argPos + 1, q.H))

conflictTarget(ib) ==
  IF ib.conflict.Target # <<>> THEN Lit(" (") \o Txt(ib.conflict.Target) \o Lit(")") ELSE <<>>

(* variant: a non-empty DoUpdate map is written even when DoNothing is set *)
buildOnConflictUpdateFirst(ib, d, q, ord) ==
  IF ~ib.conflict.set THEN q
  ELSE IF Cardinality(DOMAIN ib.conflict.DoUpdate) > 0
  THEN doUpdateSet(ib.conflict.DoUpdate, ord, 1, d,
                   Write(q, Lit(" ON CONFLICT") \o conflictTarget(ib)
                            \o Lit(" DO UPDATE SET ")))
  ELSE IF ib.conflict.DoNothing
  THEN Write(q, Lit(" ON CONFLICT") \o conflictTarget(ib) \o Lit(" DO NOTHING"))
  ELSE Write(q, Lit(" ON CONFLICT") \o conflictTarget(ib))

buildOnConflict(ib, d, q, ord) ==
  IF ~ib.conflict.set THEN q
  ELSE IF ib.conflict.DoNothing
  THEN Write(q, Lit(" ON CONFLICT") \o conflictTarget(ib) \o Lit(" DO NOTHING"))
  ELSE IF Cardinality(DOMAIN ib.conflict.DoUpdate) > 0
  THEN doUpdateSet(ib.conflict.DoUpdate, ord, 1, d,
                   Write(q, Lit(" ON CONFLICT") \o conflictTarget(ib)
                            \o Lit(" DO UPDATE SET ")))
  ELSE Write(q, Lit(" ON CONFLICT") \o conflictTarget(ib))

insertBuildReturning(ib, q) ==
  IF Len(ib.returning) > 0 THEN Write(q, Lit(" RETURNING ") \o CommaTxt(ib.returning)) ELSE q

(* ToSQL after buildValuesOrSelectOrDefault: its error is returned *)
insertAfterValues(ib, d, q, ord) ==
  IF q.err # "" THEN q ELSE insertBuildReturning(ib, buildOnConflict(ib, d, q, ord))

insertResult(ib, q) ==
  [sql |-> q.sql, args |-> q.args, err |-> q.err,
   b |-> [ib EXCEPT !.paramCounter = q.argPos], H |-> q.H]

insertBuilderToSQL(ib, d, H, ord) ==
  IF validateInsert(ib) # ""
  THEN [sql |-> <<>>, args |-> <<>>, err |-> validateInsert(ib), b |-> ib, H |-> H]
  ELSE insertResult(ib,
         insertAfterValues(ib, d,
           buildValuesOrSelectOrDefault(ib, d,
             insertBuildColumns(ib,
               Write(NewQuery(ib.paramCounter, H), Lit("INSERT INTO ") \o Txt(ib.table)))),
           ord))

-----------------------------------------------------------------------------
(* Update builder *)

newUpdateBuilder(table) ==
  [table |-> table, sets |-> <<>>, where |-> <<>>, orderBy |-> <<>>, limit |-> NoLimit,
   returning |-> <<>>, paramCount |-> 0]

ErrNoSet == "no set values specified"

RECURSIVE CommaEscaped(_, _)
CommaEscaped(d, names) ==
  IF names = <<>> THEN <<>>
  ELSE IF Len(names) = 1 THEN EscapeIdentifier(d, names[1])
  ELSE EscapeIdentifier(d, names[1]) \o Lit(", ") \o CommaEscaped(d, Tail(names))

(* one turn of the loop of buildSetClause *)
updateSet(set, i, d, q) ==
  IF set.isRaw
  THEN Write(q, Sep(i) \o EscapeIdentifier(d, set.column) \o Lit(" = ") \o Txt(set.value.cs))
  ELSE WriteBound(q, Sep(i) \o EscapeIdentifier(d, set.column) \o Lit(" = ")
                     \o Bind(d, q.argPos, set.value),
                  <<set.value>>, q.argPos + 1, q.H)

RECURSIVE updateSets(_, _, _, _)
updateSets(sets, i, d, q) ==
  IF i > Len(sets) THEN q ELSE updateSets(sets, i + 1, d, updateSet(sets[i], i, d, q))

updateBuildSetClause(ub, d, q) == updateSets(ub.sets, 1, d, Write(q, Lit(" SET ")))

updateBuildWhereClause(ub, d, q) ==
  IF Len(ub.where) = 0 THEN q
  ELSE writeConditions(q, " WHERE ", buildConditions(ub.where, d, q.argPos, q.H))

RECURSIVE EscapedOrderList(_, _)
EscapedOrderList(d, orderBy) ==
  IF orderBy = <<>> THEN <<>>
  ELSE EscapeIdentifier(d, Head(orderBy).column) \o Lit(" ") \o Lit(Head(orderBy).direction)
       \o (IF Len(orderBy) > 1 THEN Lit(", ") ELSE <<>>) \o EscapedOrderList(d, Tail(orderBy))

updateBuildOrderByClause(ub, d, q) ==
  IF Len(ub.orderBy) = 0 THEN q
  ELSE Write(q, Lit(" ORDER BY ") \o EscapedOrderList(d, ub.orderBy))

(* variant: LIMIT written under every dialect *)
updateBuildLimitClauseUngated(ub, d, q) ==
  IF ub.limit = NoLimit THEN q
  ELSE WriteBound(q, Lit(" LIMIT ") \o Bind(d, q.argPos, IntV(ub.limit[1])),
                  <<IntV(ub.limit[1])>>, q.argPos + 1, q.H)

updateBuildLimitClause(ub, d, q) ==
  IF ub.limit = NoLimit THEN q
  ELSE IF d \in {"mysql", "sqlite"}
  THEN WriteBound(q, Lit(" LIMIT ") \o Bind(d, q.argPos, IntV(ub.limit[1])),
                  <<IntV(ub.limit[1])>>, q.argPos + 1, q.H)
  ELSE q

(* variant: RETURNING written under every dialect *)
updateBuildReturningClauseUngated(ub, d, q) ==
  IF Len(ub.returning) = 0 THEN q
  ELSE Write(q, Lit(" RETURNING ") \o CommaEscaped(d, ub.returning))

updateBuildReturningClause(ub, d, q) ==
  IF Len(ub.returning) = 0 THEN q
  ELSE IF d \in {"postgres", "sqlite"}
  THEN Write(q, Lit(" RETURNING ") \o CommaEscaped(d, ub.returning))
  ELSE q

(* ToSQL after its two checks *)
updateClauses(ub, d, q) ==
  updateBuildReturningClause(ub, d,
    updateBuildLimitClause(ub, d,
      updateBuildOrderByClause(ub, d,
        updateBuildWhereClause(ub, d,
          updateBuildSetClause(ub, d,
            Write(q, Lit("UPDATE ") \o EscapeIdentifier(d, ub.table)))))))

updateResult(ub, q) ==
  [sql |-> q.sql, args |-> q.args, err |-> q.err,
   b |-> [ub EXCEPT !.paramCount = q.argPos], H |-> q.H]

(* variant: an update without assignments is rendered *)
updateBuilderToSQLNoSetCheck(ub, d, H) ==
  IF ub.table = <<>>
  THEN [sql |-> <<>>, args |-> <<>>, err |-> ErrNoTable, b |-> ub, H |-> H]
  ELSE updateResult(ub, updateClauses(ub, d, NewQuery(ub.paramCount, H)))

updateBuilderToSQL(ub, d, H) ==
  IF ub.table = <<>>
  THEN [sql |-> <<>>, args |-> <<>>, err |-> ErrNoTable, b |-> ub, H |-> H]
  ELSE IF Len(ub.sets) = 0
  THEN [sql |-> <<>>, args |-> <<>>, err |-> ErrNoSet, b |-> ub, H |-> H]
  ELSE updateResult(ub, updateClauses(ub, d, NewQuery(ub.paramCount, H)))

-----------------------------------------------------------------------------
(* Delete builder *)

newDeleteBuilder(table) ==
  [table |-> table, where |-> <<>>, orderBy |-> <<>>, limit |-> NoLimit,
   returning |-> <<>>, paramCount |-> 0, joins |-> <<>>]

RECURSIVE deleteJoins(_)
deleteJoins(joins) ==
  IF joins = <<>> THEN <<>>
  ELSE Lit(" " \o Head(joins).joinType \o " JOIN ") \o Txt(Head(joins).table) \o Lit(" ON ")
       \o Lit(Head(joins).condition) \o deleteJoins(Tail(joins))

deleteBuildWhereClause(db, d, H) ==
  IF Len(db.where) = 0
  THEN Fragment(<<>>, <<>>, db.paramCount, H)
  ELSE buildConditions(db.where, d, db.paramCount, H)

(* ToSQL writes WHERE and keeps the arguments only when the text is not empty *)
deleteWriteWhere(q, w) ==
  IF w.sql # <<>>
  THEN WriteBound(q, Lit(" WHERE ") \o w.sql, w.args, w.argPos, w.H)
  ELSE WriteBound(q, <<>>, <<>>, w.argPos, w.H)

(* variant: ORDER BY written under every dialect *)
deleteBuildOrderByClauseUngated(db, d, q) ==
  IF Len(db.orderBy) = 0 THEN q
  ELSE Write(q, Lit(" ORDER BY ") \o OrderList(db.orderBy))

deleteBuildOrderByClause(db, d, q) ==
  IF Len(db.orderBy) = 0 THEN q
  ELSE IF d \in {"mysql", "sqlite"}
  THEN Write(q, Lit(" ORDER BY ") \o OrderList(db.orderBy))
  ELSE q

(* variant: LIMIT written under every dialect *)
deleteBuildLimitClauseUngated(db, d, q) ==
  IF db.limit = NoLimit THEN q
  ELSE WriteBound(q, Lit(" LIMIT ") \o Bind(d, q.argPos, IntV(db.limit[1])),
                  <<IntV(db.limit[1])>>, q.argPos + 1, q.H)

deleteBuildLimitClause(db, d, q) ==
  IF db.limit = NoLimit THEN q
  ELSE IF d \in {"mysql", "sqlite"}
  THEN WriteBound(q, Lit(" LIMIT ") \o Bind(d, q.argPos, IntV(db.limit[1])),
                  <<IntV(db.limit[1])>>, q.argPos + 1, q.H)
  ELSE q

deleteBuildReturningClause(db, d, q) ==
  IF Len(db.returning) = 0 THEN q
  ELSE IF d \in {"postgres", "sqlite"}
  THEN Write(q, Lit(" RETURNING ") \o CommaTxt(db.returning))
  ELSE q

(* ToSQL after its check *)
deleteClauses(db, d, q) ==
  deleteBuildReturningClause(db, d,
    deleteBuildLimitClause(db, d,
      deleteBuildOrderByClause(db, d,
        deleteWriteWhere(Write(q, Lit("DELETE FROM ") \o Txt(db.table) \o deleteJoins(db.joins)),
                         deleteBuildWhereClause(db, d, q.H)))))

deleteResult(db, q) ==
  [sql |-> q.sql, args |-> q.args, err |-> q.err,
   b |-> [db EXCEPT !.paramCount = q.argPos], H |-> q.H]

deleteBuilderToSQL(db, d, H) ==
  IF db.table = <<>>
  THEN [sql |-> <<>>, args |-> <<>>, err |-> ErrNoTable, b |-> db, H |-> H]
  ELSE deleteResult(db, deleteClauses(db, d, NewQuery(db.paramCount, H)))

-----------------------------------------------------------------------------
(* The inputs the model draws from *)

ColA == <<"a">>

ColB == <<"b">>

Tables == {<<>>, <<"t">>}

ColumnLists == {<<ColA>>, <<ColA, ColB>>}

Directions == {"DESC", "asc"}

OnText == "x.id = y.id"

Aliases == {<<>>, <<"s">>}

SubIds == {1, 2, 3, 4}

(* argument lists of Where *)
ConditionLists ==
  {<<Eq(ColA, IntV(1))>>,
   <<EqSubquery(ColA, 1)>>,
   <<EqSubquery(ColB, 2)>>,
   <<Or(<<IsNull(ColA), Between(ColB, IntV(2), IntV(3))>>), ColumnEq(ColA, ColB)>>}

NowText == <<"N", "O", "W">>

(* argument lists of Values *)
ValueRows ==
  {<<IntV(1)>>,
   <<IntV(1), IntV(2)>>,
   <<Raw(NowText), IntV(3)>>,
   <<StrV(RawPrefix \o NowText)>>,
   <<IntV(4), UnsafeRaw(NowText), IntV(5)>>}

ConflictActions ==
  {ConflictAction(<<>>, FALSE, <<>>),
   ConflictAction(ColA, TRUE, [c \in {ColB} |-> IntV(6)]),
   ConflictAction(ColA, FALSE, [c \in {ColA, ColB} |-> IF c = ColA THEN IntV(6) ELSE IntV(7)])}

(* the embedded builders, built before they are embedded: slot 1 binds one *)
(* value, slot 2 has no FROM source, slots 3 and 4 select from slots 1 and 2 *)
Inner1 == [newSelectBuilder(<<ColA>>) EXCEPT !.table = <<"u">>, !.where = <<Eq(ColA, IntV(9))>>]

Inner2 == newSelectBuilder(<<>>)

Nested(id) ==
  [newSelectBuilder(<<>>) EXCEPT !.subquery = [builder |-> id, alias |-> <<"n">>],
                                 !.where = <<Eq(ColB, IntV(8))>>]

SubHeap == <<Inner1, Inner2, Nested(1), Nested(2)>>

(* argument lists of Having *)
HavingLists == {<<Gt(ColB, IntV(4))>>}

Kinds == {"select", "insert", "update", "delete"}

NoOut ==
  [done |-> FALSE, sql |-> <<>>, args |-> <<>>, err |-> "", before |-> <<>>,
   after |-> <<>>, H0 |-> <<>>, H1 |-> <<>>]

NoCond == And(<<>>)

NoRet == [done |-> FALSE, val |-> <<>>]

NoCres ==
  [done |-> FALSE, sql |-> <<>>, args |-> <<>>, argPos |-> 0, H0 |-> <<>>, H1 |-> <<>>]

RECURSIVE Perms(_)
Perms(S) ==
  IF S = {} THEN {<<>>}
  ELSE UNION {{<<x>> \o p : p \in Perms(S \ {x})} : x \in S}

-----------------------------------------------------------------------------
(* The statement builders as a state machine: one builder of the kind and  *)
(* dialect chosen at construction, the mutators and ToSQL.                 *)

Init ==
  /\ dialect \in Dialects
  /\ kind \in Kinds
  /\ subs = SubHeap
  /\ sel = newSelectBuilder(<<ColA, ColB>>)
  /\ ins \in {newInsertBuilder(t) : t \in IF kind = "insert" THEN Tables ELSE {<<>>}}
  /\ upd \in {newUpdateBuilder(t) : t \in IF kind = "update" THEN Tables ELSE {<<>>}}
  /\ del \in {newDeleteBuilder(t) : t \in IF kind = "delete" THEN Tables ELSE {<<>>}}
  /\ calls = 0
  /\ renders = 0
  /\ panicked = FALSE
  /\ out = NoOut
  /\ prev = NoOut
  /\ cond = NoCond
  /\ cpos = 0
  /\ cres = NoCres
  /\ fn = ""
  /\ input = <<>>
  /\ ret = NoRet
  /\ made = {}

(* variant: the direction recorded as it was given *)
orderAsGiven(column, direction) == [column |-> column, direction |-> direction]

order(column, direction) ==
  [column |-> column,
   direction |-> IF direction # "ASC" /\ direction # "DESC" THEN "ASC" ELSE direction]

join(joinType, table, subquery, condition) ==
  [joinType |-> joinType, table |-> table, subquery |-> subquery, condition |-> condition]

Result(r, before, after, H0) ==
  [done |-> TRUE, sql |-> r.sql, args |-> r.args, err |-> r.err, before |-> before,
   after |-> after, H0 |-> H0, H1 |-> r.H]

MutSel(new) ==
  /\ kind = "select" /\ calls < MaxCalls /\ ~panicked
  /\ sel' = new
  /\ calls' = calls + 1
  /\ out' = NoOut /\ prev' = NoOut
  /\ UNCHANGED <<made, fn, input, ret, dialect, kind, subs, ins, upd, del, renders, panicked, cond, cpos, cres>>

SelectFrom == \E table \in Tables : MutSel([sel EXCEPT !.table = table])

SelectWhere == \E cs \in ConditionLists : MutSel([sel EXCEPT !.where = @ \o cs])

SelectJoin == MutSel([sel EXCEPT !.joins = Append(@, join("INNER", <<"j">>, NoSubquery, OnText))])

SelectLeftJoin == MutSel([sel EXCEPT !.joins = Append(@, join("LEFT", <<"j">>, NoSubquery, OnText))])

SelectRightJoin == MutSel([sel EXCEPT !.joins = Append(@, join("RIGHT", <<"j">>, NoSubquery, OnText))])

SelectGroupBy == MutSel([sel EXCEPT !.groupBy = @ \o <<ColA, ColB>>])

SelectHaving == \E cs \in HavingLists : MutSel([sel EXCEPT !.having = @ \o cs])

SelectOrderBy == \E dir \in Directions : MutSel([sel EXCEPT !.orderBy = Append(@, order(ColA, dir))])

SelectLimit == MutSel([sel EXCEPT !.limit = <<10>>])

SelectOffset == MutSel([sel EXCEPT !.offset = <<20>>])

SelectDistinct == MutSel([sel EXCEPT !.distinct = TRUE])

SelectFromSubquery ==
  \E id \in SubIds : \E alias \in (IF id = 1 THEN Aliases ELSE {<<"s">>}) :
    MutSel([sel EXCEPT !.table = <<>>, !.subquery = [builder |-> id, alias |-> alias]])

joinSubquery(joinType, id, alias, on) ==
  MutSel([sel EXCEPT !.joins = Append(@, join(joinType, <<>>, [builder |-> id, alias |-> alias], on))])

SelectJoinSubquery == \E id \in {1, 4} : joinSubquery("INNER", id, <<"s">>, OnText)

SelectLeftJoinSubquery == \E id \in {1} : joinSubquery("LEFT", id, <<"s">>, OnText)

SelectRightJoinSubquery == \E id \in {1} : joinSubquery("RIGHT", id, <<"s">>, OnText)

(* the builder and the embedded builders after ToSQL returned r, and what *)
(* it returned                                                            *)
SelectRendered(r) ==
  /\ sel' = r.sb
  /\ subs' = r.H
  /\ out' = Result(r, sel, r.sb, subs)
  /\ prev' = out
  /\ renders' = renders + 1
  /\ UNCHANGED <<made, fn, input, ret, dialect, kind, ins, upd, del, calls, panicked, cond, cpos, cres>>

SelectToSQL ==
  /\ kind = "select" /\ renders < MaxRenders /\ ~panicked
  /\ SelectRendered(selectBuilderToSQL(sel, dialect, subs))

MutIns(new) ==
  /\ kind = "insert" /\ calls < MaxCalls /\ ~panicked
  /\ ins' = new
  /\ calls' = calls + 1
  /\ out' = NoOut /\ prev' = NoOut
  /\ UNCHANGED <<made, fn, input, ret, dialect, kind, subs, sel, upd, del, renders, panicked, cond, cpos, cres>>

InsertInto == \E table \in Tables : MutIns([ins EXCEPT !.table = table])

InsertColumns == \E cols \in ColumnLists : MutIns([ins EXCEPT !.columns = cols])

processedValues(values) ==
  [i \in 1..Len(values) |->
     IF values[i].tag = "string" /\ HasPrefix(values[i].cs, RawPrefix)
     THEN Raw(TrimPrefix(values[i].cs, RawPrefix))
     ELSE values[i]]

(* the builder after Values, given the processed values *)
valuesAppended(processed) ==
  IF \E i \in 1..Len(processed) : processed[i] = Panic
  THEN panicked' = TRUE /\ ins' = ins
  ELSE panicked' = FALSE /\ ins' = [ins EXCEPT !.values = Append(@, processed)]

InsertValues ==
  \E values \in ValueRows :
    /\ \/ kind = "insert" /\ calls < MaxCalls
       \/ kind = "rows"
    /\ ~panicked
    /\ Len(ins.values) < MaxRows
    /\ valuesAppended(processedValues(values))
    /\ calls' = calls + 1
    /\ out' = NoOut /\ prev' = NoOut
    /\ UNCHANGED <<made, fn, input, ret, dialect, kind, subs, sel, upd, del, renders, cond, cpos, cres>>

InsertFromSelect == \E id \in {1, 2} : MutIns([ins EXCEPT !.fromSelect = id])

InsertOnConflict == \E ca \in ConflictActions : MutIns([ins EXCEPT !.conflict = ca])

InsertReturning == MutIns([ins EXCEPT !.returning = <<ColA, ColB>>])

InsertDefaultValues == MutIns([ins EXCEPT !.useDefaults = TRUE])

InsertRendered(r) ==
  /\ ins' = r.b
  /\ subs' = r.H
  /\ out' = Result(r, ins, r.b, subs)
  /\ prev' = out
  /\ renders' = renders + 1
  /\ UNCHANGED <<made, fn, input, ret, dialect, kind, sel, upd, del, calls, panicked, cond, cpos, cres>>

InsertToSQL ==
  /\ kind \in {"insert", "rows"} /\ renders < MaxRenders /\ ~panicked
  /\ \E ord \in Perms(DOMAIN ins.conflict.DoUpdate) :
       InsertRendered(insertBuilderToSQL(ins, dialect, subs, ord))

(* an update renders nothing before its first Set: one more call than the  *)
(* other builders get                                                      *)
MaxUpdateCalls == MaxCalls + 1

MutUpd(new) ==
  /\ kind = "update" /\ calls < MaxUpdateCalls /\ ~panicked
  /\ upd' = new
  /\ calls' = calls + 1
  /\ out' = NoOut /\ prev' = NoOut
  /\ UNCHANGED <<made, fn, input, ret, dialect, kind, subs, sel, ins, del, renders, panicked, cond, cpos, cres>>

setClause(column, value, isRaw) == [column |-> column, value |-> value, isRaw |-> isRaw]

UpdateTable == \E table \in Tables : MutUpd([upd EXCEPT !.table = table])

UpdateSet ==
  \E v \in {IntV(1)} : MutUpd([upd EXCEPT !.sets = Append(@, setClause(ColA, v, FALSE))])

UpdateSetRaw == MutUpd([upd EXCEPT !.sets = Append(@, setClause(ColB, StrV(NowText), TRUE))])

UpdateWhere == \E cs \in ConditionLists : MutUpd([upd EXCEPT !.where = @ \o cs])

UpdateOrderBy == \E dir \in Directions : MutUpd([upd EXCEPT !.orderBy = Append(@, order(ColA, dir))])

UpdateLimit == MutUpd([upd EXCEPT !.limit = <<10>>])

UpdateReturning == MutUpd([upd EXCEPT !.returning = <<ColA, ColB>>])

UpdateRendered(r) ==
  /\ upd' = r.b
  /\ subs' = r.H
  /\ out' = Result(r, upd, r.b, subs)
  /\ prev' = out
  /\ renders' = renders + 1
  /\ UNCHANGED <<made, fn, input, ret, dialect, kind, sel, ins, del, calls, panicked, cond, cpos, cres>>

UpdateToSQL ==
  /\ kind = "update" /\ renders < MaxRenders /\ ~panicked
  /\ UpdateRendered(updateBuilderToSQL(upd, dialect, subs))

MutDel(new) ==
  /\ kind = "delete" /\ calls < MaxCalls /\ ~panicked
  /\ del' = new
  /\ calls' = calls + 1
  /\ out' = NoOut /\ prev' = NoOut
  /\ UNCHANGED <<made, fn, input, ret, dialect, kind, subs, sel, ins, upd, renders, panicked, cond, cpos, cres>>

DeleteJoin == MutDel([del EXCEPT !.joins = Append(@, join("INNER", <<"j">>, NoSubquery, OnText))])

DeleteLeftJoin == MutDel([del EXCEPT !.joins = Append(@, join("LEFT", <<"j">>, NoSubquery, OnText))])

DeleteRightJoin == MutDel([del EXCEPT !.joins = Append(@, join("RIGHT", <<"j">>, NoSubquery, OnText))])

DeleteFrom == \E table \in Tables : MutDel([del EXCEPT !.table = table])

DeleteWhere == \E cs \in ConditionLists : MutDel([del EXCEPT !.where = @ \o cs])

DeleteOrderBy == \E dir \in Directions : MutDel([del EXCEPT !.orderBy = Append(@, order(ColA, dir))])

DeleteLimit == MutDel([del EXCEPT !.limit = <<10>>])

DeleteReturning == MutDel([del EXCEPT !.returning = <<ColA, ColB>>])

DeleteRendered(r) ==
  /\ del' = r.b
  /\ subs' = r.H
  /\ out' = Result(r, del, r.b, subs)
  /\ prev' = out
  /\ renders' = renders + 1
  /\ UNCHANGED <<made, fn, input, ret, dialect, kind, sel, ins, upd, calls, panicked, cond, cpos, cres>>

DeleteToSQL ==
  /\ kind = "delete" /\ renders < MaxRenders /\ ~panicked
  /\ DeleteRendered(deleteBuilderToSQL(del, dialect, subs))

Next ==
  \/ SelectFrom \/ SelectWhere \/ SelectJoin \/ SelectLeftJoin \/ SelectRightJoin
  \/ SelectGroupBy \/ SelectHaving \/ SelectOrderBy \/ SelectLimit \/ SelectOffset
  \/ SelectDistinct \/ SelectFromSubquery \/ SelectJoinSubquery
  \/ SelectLeftJoinSubquery \/ SelectRightJoinSubquery \/ SelectToSQL
  \/ InsertInto \/ InsertColumns \/ InsertValues \/ InsertFromSelect \/ InsertOnConflict
  \/ InsertReturning \/ InsertDefaultValues \/ InsertToSQL
  \/ UpdateTable \/ UpdateSet \/ UpdateSetRaw \/ UpdateWhere \/ UpdateOrderBy
  \/ UpdateLimit \/ UpdateReturning \/ UpdateToSQL
  \/ DeleteJoin \/ DeleteLeftJoin \/ DeleteRightJoin \/ DeleteFrom \/ DeleteWhere
  \/ DeleteOrderBy \/ DeleteLimit \/ DeleteReturning \/ DeleteToSQL

Spec == Init /\ [][Next]_vars

-----------------------------------------------------------------------------
(* An insert builder with its columns chosen, driven by Values and ToSQL   *)
(* alone, so that statements of MaxRows rows are rendered.                 *)

InitRows ==
  /\ dialect \in Dialects
  /\ kind = "rows"
  /\ subs = SubHeap
  /\ sel = newSelectBuilder(<<ColA, ColB>>)
  /\ ins \in {[newInsertBuilder(<<"t">>) EXCEPT !.columns = c] : c \in {<<>>} \cup ColumnLists}
  /\ upd = newUpdateBuilder(<<>>)
  /\ del = newDeleteBuilder(<<>>)
  /\ calls = 0
  /\ renders = 0
  /\ panicked = FALSE
  /\ out = NoOut
  /\ prev = NoOut
  /\ cond = NoCond
  /\ cpos = 0
  /\ cres = NoCres
  /\ fn = ""
  /\ input = <<>>
  /\ ret = NoRet
  /\ made = {}

NextRows == InsertValues \/ InsertToSQL

SpecRows == InitRows /\ [][NextRows]_vars

-----------------------------------------------------------------------------
(* Condition trees rendered on their own: Condition.ToSQL(dialect, argPos) *)
(* applied to a tree, with the counter at cpos.                            *)

Leaves ==
  {Eq(ColA, IntV(1)), In(ColB, 2), NotIn(ColA, 3), IsNull(ColA), IsNotNull(ColB),
   ColumnEq(ColA, ColB), Between(ColB, IntV(2), IntV(3)), EqSubquery(ColA, 1)}

Groups ==
  {And(<<>>),
   Or(<<Gt(ColB, IntV(4))>>),
   And(<<Gt(ColB, IntV(4)), Eq(ColA, IntV(5))>>),
   Or(<<IsNull(ColA), And(<<Between(ColB, IntV(6), IntV(7)), Or(<<Eq(ColA, IntV(8))>>)>>)>>)}

KidLists == UNION {[1..n -> Leaves \cup Groups] : n \in 0..MaxKids}

CondTrees == Leaves \cup {And(ks) : ks \in KidLists} \cup {Or(ks) : ks \in KidLists}

InitCond ==
  /\ dialect \in Dialects
  /\ kind = "cond"
  /\ subs = SubHeap
  /\ sel = newSelectBuilder(<<ColA, ColB>>)
  /\ ins = newInsertBuilder(<<>>)
  /\ upd = newUpdateBuilder(<<>>)
  /\ del = newDeleteBuilder(<<>>)
  /\ calls = 0
  /\ renders = 0
  /\ panicked = FALSE
  /\ out = NoOut
  /\ prev = NoOut
  /\ cond \in CondTrees
  /\ cpos \in {0, 2}
  /\ cres = NoCres
  /\ fn = ""
  /\ input = <<>>
  /\ ret = NoRet
  /\ made = {}

ConditionRendered(r) ==
  /\ cres' = [done |-> TRUE, sql |-> r.sql, args |-> r.args, argPos |-> r.argPos,
              H0 |-> subs, H1 |-> r.H]
  /\ subs' = r.H

ConditionRender ==
  /\ kind = "cond" /\ ~cres.done
  /\ ConditionRendered(ConditionToSQL(cond, dialect, cpos, subs))
  /\ UNCHANGED <<made, fn, input, ret, dialect, kind, sel, ins, upd, del, calls, renders, panicked, out, prev,
                 cond, cpos>>

NextCond == ConditionRender

SpecCond == InitCond /\ [][NextCond]_vars

-----------------------------------------------------------------------------
(* A select builder that receives the calls of SelectCalls, each at most   *)
(* once, in any order that keeps the calls to the same mutator in list     *)
(* order, and is then rendered once.                                       *)

(* the calls, listed in the order of the clauses they feed; the three JOIN *)
(* mutators append to the same list and count as one mutator               *)
SelectCalls ==
  <<[m |-> "From", a |-> <<"t">>],
    [m |-> "Join", a |-> "INNER"],
    [m |-> "Join", a |-> "LEFT"],
    [m |-> "Where", a |-> <<Eq(ColA, IntV(1))>>],
    [m |-> "Where", a |-> <<Or(<<IsNull(ColA), Between(ColB, IntV(2), IntV(3))>>)>>],
    [m |-> "GroupBy", a |-> <<ColA, ColB>>],
    [m |-> "Having", a |-> <<Gt(ColB, IntV(4))>>],
    [m |-> "OrderBy", a |-> order(ColA, "DESC")],
    [m |-> "OrderBy", a |-> order(ColB, "asc")],
    [m |-> "Limit", a |-> <<10>>],
    [m |-> "Offset", a |-> <<20>>]>>

(* the builder after the mutator call c *)
selectCall(sb, c) ==
  CASE c.m = "From" -> [sb EXCEPT !.table = c.a]
    [] c.m = "Join" -> [sb EXCEPT !.joins = Append(@, join(c.a, <<"j">>, NoSubquery, OnText))]
    [] c.m = "Where" -> [sb EXCEPT !.where = @ \o c.a]
    [] c.m = "GroupBy" -> [sb EXCEPT !.groupBy = @ \o c.a]
    [] c.m = "Having" -> [sb EXCEPT !.having = @ \o c.a]
    [] c.m = "OrderBy" -> [sb EXCEPT !.orderBy = Append(@, c.a)]
    [] c.m = "Limit" -> [sb EXCEPT !.limit = c.a]
    [] c.m = "Offset" -> [sb EXCEPT !.offset = c.a]

InitOrder ==
  /\ dialect \in Dialects
  /\ kind = "order"
  /\ subs = SubHeap
  /\ sel = newSelectBuilder(<<ColA, ColB>>)
  /\ ins = newInsertBuilder(<<>>)
  /\ upd = newUpdateBuilder(<<>>)
  /\ del = newDeleteBuilder(<<>>)
  /\ calls = 0
  /\ renders = 0
  /\ panicked = FALSE
  /\ out = NoOut
  /\ prev = NoOut
  /\ cond = NoCond
  /\ cpos = 0
  /\ cres = NoCres
  /\ fn = ""
  /\ input = <<>>
  /\ ret = NoRet
  /\ made = {}

(* the i-th call of the list is made next; calls holds the last call made  *)
SelectCallInAnyOrder ==
  \E i \in DOMAIN SelectCalls \ made :
    /\ kind = "order" /\ ~out.done
    /\ \A j \in made : SelectCalls[j].m = SelectCalls[i].m => j < i
    /\ sel' = selectCall(sel, SelectCalls[i])
    /\ made' = made \cup {i}
    /\ calls' = i
    /\ UNCHANGED <<fn, input, ret, dialect, kind, subs, ins, upd, del, renders, panicked,
                   out, prev, cond, cpos, cres>>

SelectToSQLOnce ==
  /\ kind = "order" /\ ~out.done
  /\ SelectRendered(selectBuilderToSQL(sel, dialect, subs))

NextOrder == SelectCallInAnyOrder \/ SelectToSQLOnce

SpecOrder == InitOrder /\ [][NextOrder]_vars

-----------------------------------------------------------------------------
(* The functions of the package called on their own: Placeholder of the    *)
(* two dialect files with an index, Raw and UnsafeRaw with a text.         *)

Indexes == 0..MaxIndex

RawTexts ==
  {<<>>,
   <<"N", "O", "W", "(", ")">>,
   <<"D", "R", "O", "P">>,
   <<"d", "r", "o", "p">>,
   <<"D", "r", "O", "p", " ", "x">>,
   <<"D", "R", "O", "P", "S">>,
   <<"x", "_", "D", "R", "O", "P">>,
   <<"a", ";", "d", "e", "l", "e", "t", "e", " ", "b">>,
   <<"d", "e", "l", "e", "t", "e", "d">>,
   <<"I", "n", "s", "e", "r", "t">>,
   <<"I", "N", "S", "E", "R", "T", "1">>,
   <<"(", "U", "P", "D", "A", "T", "E", ")">>,
   <<"u", "p", "d", "a", "t", "e", "d", "_", "a", "t">>,
   <<"U", "P", " ", "D", "A", "T", "E">>,
   <<"x", ",", "a", "l", "t", "e", "r">>,
   <<"A", "L", "T", "E", "R", "E", "D">>,
   <<"S", "E", "L", "E", "C", "T", " ", "1">>}

Functions == {"Placeholder", "builderPlaceholder", "Raw", "UnsafeRaw"}

InitFn ==
  /\ fn \in Functions
  /\ dialect \in (IF fn \in {"Placeholder", "builderPlaceholder"} THEN Dialects ELSE {"mysql"})
  /\ input \in (IF fn \in {"Placeholder", "builderPlaceholder"} THEN Indexes ELSE RawTexts)
  /\ ret = NoRet
  /\ made = {}
  /\ kind = "fn"
  /\ subs = SubHeap
  /\ sel = newSelectBuilder(<<ColA, ColB>>)
  /\ ins = newInsertBuilder(<<>>)
  /\ upd = newUpdateBuilder(<<>>)
  /\ del = newDeleteBuilder(<<>>)
  /\ calls = 0
  /\ renders = 0
  /\ panicked = FALSE
  /\ out = NoOut
  /\ prev = NoOut
  /\ cond = NoCond
  /\ cpos = 0
  /\ cres = NoCres

(* the call returned val, or panicked *)
Returned(val, panic) ==
  /\ ret' = [done |-> TRUE, val |-> val]
  /\ panicked' = panic
  /\ UNCHANGED <<made, fn, input, dialect, kind, subs, sel, ins, upd, del, calls, renders, out, prev,
                 cond, cpos, cres>>

PlaceholderCall ==
  kind = "fn" /\ fn = "Placeholder" /\ ~ret.done /\ Returned(Placeholder(dialect, input), FALSE)

builderPlaceholderCall ==
  kind = "fn" /\ fn = "builderPlaceholder" /\ ~ret.done
    /\ Returned(builderPlaceholder(dialect, input), FALSE)

RawCall == kind = "fn" /\ fn = "Raw" /\ ~ret.done /\ Returned(Raw(input), Raw(input) = Panic)

UnsafeRawCall == kind = "fn" /\ fn = "UnsafeRaw" /\ ~ret.done /\ Returned(UnsafeRaw(input), FALSE)

NextFn == PlaceholderCall \/ builderPlaceholderCall \/ RawCall \/ UnsafeRawCall

SpecFn == InitFn /\ [][NextFn]_vars

-----------------------------------------------------------------------------
(* A Select, Update or Delete builder that can be rendered, driven by      *)
(* OrderBy calls alone and then rendered once; input keeps the arguments   *)
(* of the calls as they were given.                                        *)

MaxOrderBy == 2

GivenDirections == {"ASC", "DESC", "asc", "desc", ""}

OrderByBuilders == {"select", "update", "delete"}

InitOrderBy ==
  /\ dialect \in Dialects
  /\ kind = "orderby"
  /\ fn \in OrderByBuilders
  /\ subs = SubHeap
  /\ sel = [newSelectBuilder(<<ColA, ColB>>) EXCEPT !.table = <<"t">>]
  /\ ins = newInsertBuilder(<<>>)
  /\ upd = [newUpdateBuilder(<<"t">>) EXCEPT !.sets = <<setClause(ColA, IntV(1), FALSE)>>]
  /\ del = newDeleteBuilder(<<"t">>)
  /\ calls = 0
  /\ renders = 0
  /\ panicked = FALSE
  /\ out = NoOut
  /\ prev = NoOut
  /\ cond = NoCond
  /\ cpos = 0
  /\ cres = NoCres
  /\ input = <<>>
  /\ ret = NoRet
  /\ made = {}

(* OrderBy(column, direction) was called on the builder fn names *)
OrderByGiven(b, column, direction) ==
  /\ kind = "orderby" /\ fn = b /\ ~out.done /\ Len(input) < MaxOrderBy
  /\ input' = Append(input, [column |-> column, direction |-> direction])
  /\ calls' = calls + 1
  /\ UNCHANGED <<made, fn, ret, dialect, kind, subs, ins, renders, panicked, out, prev,
                 cond, cpos, cres>>

SelectOrderByGiven ==
  \E column \in {ColA, ColB} : \E direction \in GivenDirections :
    /\ OrderByGiven("select", column, direction)
    /\ sel' = [sel EXCEPT !.orderBy = Append(@, order(column, direction))]
    /\ UNCHANGED <<upd, del>>

UpdateOrderByGiven ==
  \E column \in {ColA, ColB} : \E direction \in GivenDirections :
    /\ OrderByGiven("update", column, direction)
    /\ upd' = [upd EXCEPT !.orderBy = Append(@, order(column, direction))]
    /\ UNCHANGED <<sel, del>>

DeleteOrderByGiven ==
  \E column \in {ColA, ColB} : \E direction \in GivenDirections :
    /\ OrderByGiven("delete", column, direction)
    /\ del' = [del EXCEPT !.orderBy = Append(@, order(column, direction))]
    /\ UNCHANGED <<sel, upd>>

OrderedSelectToSQL ==
  /\ kind = "orderby" /\ fn = "select" /\ ~out.done
  /\ SelectRendered(selectBuilderToSQL(sel, dialect, subs))

OrderedUpdateToSQL ==
  /\ kind = "orderby" /\ fn = "update" /\ ~out.done
  /\ UpdateRendered(updateBuilderToSQL(upd, dialect, subs))

OrderedDeleteToSQL ==
  /\ kind = "orderby" /\ fn = "delete" /\ ~out.done
  /\ DeleteRendered(deleteBuilderToSQL(del, dialect, subs))

NextOrderBy ==
  \/ SelectOrderByGiven \/ UpdateOrderByGiven \/ DeleteOrderByGiven
  \/ OrderedSelectToSQL \/ OrderedUpdateToSQL \/ OrderedDeleteToSQL

SpecOrderBy == InitOrderBy /\ [][NextOrderBy]_vars

-----------------------------------------------------------------------------
(* A delete builder that receives the calls of DeleteCalls, each at most   *)
(* once, in any order that keeps the calls to the same mutator in list     *)
(* order, and is then rendered once.                                       *)

(* the calls, listed in the order of the clauses they feed; the three JOIN *)
(* mutators append to the same list and count as one mutator               *)
DeleteCalls ==
  <<[m |-> "From", a |-> <<"t">>],
    [m |-> "Join", a |-> "LEFT"],
    [m |-> "Join", a |-> "INNER"],
    [m |-> "Where", a |-> <<Eq(ColA, IntV(1))>>],
    [m |-> "Where", a |-> <<Or(<<IsNull(ColA), Between(ColB, IntV(2), IntV(3))>>)>>],
    [m |-> "OrderBy", a |-> order(ColA, "DESC")],
    [m |-> "OrderBy", a |-> order(ColB, "asc")],
    [m |-> "Limit", a |-> <<10>>],
    [m |-> "Returning", a |-> <<ColA, ColB>>]>>

(* the builder after the mutator call c *)
deleteCall(db, c) ==
  CASE c.m = "From" -> [db EXCEPT !.table = c.a]
    [] c.m = "Join" -> [db EXCEPT !.joins = Append(@, join(c.a, <<"j">>, NoSubquery, OnText))]
    [] c.m = "Where" -> [db EXCEPT !.where = @ \o c.a]
    [] c.m = "OrderBy" -> [db EXCEPT !.orderBy = Append(@, c.a)]
    [] c.m = "Limit" -> [db EXCEPT !.limit = c.a]
    [] c.m = "Returning" -> [db EXCEPT !.returning = c.a]

InitDeleteOrder ==
  /\ dialect \in Dialects
  /\ kind = "deleteorder"
  /\ subs = SubHeap
  /\ sel = newSelectBuilder(<<ColA, ColB>>)
  /\ ins = newInsertBuilder(<<>>)
  /\ upd = newUpdateBuilder(<<>>)
  /\ del = newDeleteBuilder(<<>>)
  /\ calls = 0
  /\ renders = 0
  /\ panicked = FALSE
  /\ out = NoOut
  /\ prev = NoOut
  /\ cond = NoCond
  /\ cpos = 0
  /\ cres = NoCres
  /\ fn = ""
  /\ input = <<>>
  /\ ret = NoRet
  /\ made = {}

(* the i-th call of the list is made next; calls holds the last call made  *)
DeleteCallInAnyOrder ==
  \E i \in DOMAIN DeleteCalls \ made :
    /\ kind = "deleteorder" /\ ~out.done
    /\ \A j \in made : DeleteCalls[j].m = DeleteCalls[i].m => j < i
    /\ del' = deleteCall(del, DeleteCalls[i])
    /\ made' = made \cup {i}
    /\ calls' = i
    /\ UNCHANGED <<fn, input, ret, dialect, kind, subs, sel, ins, upd, renders, panicked,
                   out, prev, cond, cpos, cres>>

DeleteToSQLOnce ==
  /\ kind = "deleteorder" /\ ~out.done
  /\ DeleteRendered(deleteBuilderToSQL(del, dialect, subs))

NextDeleteOrder == DeleteCallInAnyOrder \/ DeleteToSQLOnce

SpecDeleteOrder == InitDeleteOrder /\ [][NextDeleteOrder]_vars

-----------------------------------------------------------------------------
(* An insert builder whose Values calls are recorded as they were made:    *)
(* input holds the argument lists in call order, ins.values what the       *)
(* builder stored for them.                                                *)

AnaText == <<"A", "n", "a">>

DropText == <<"D", "R", "O", "P">>

(* argument lists of Values: those of ValueRows, a plain string, and a     *)
(* string that begins with RAW: and goes on with a keyword                 *)
GivenValueRows ==
  ValueRows \cup {<<IntV(1), StrV(AnaText)>>, <<StrV(RawPrefix \o DropText)>>}

InitValues ==
  /\ dialect \in Dialects
  /\ kind = "values"
  /\ subs = SubHeap
  /\ sel = newSelectBuilder(<<ColA, ColB>>)
  /\ ins \in {[newInsertBuilder(<<"t">>) EXCEPT !.columns = c] : c \in {<<>>} \cup ColumnLists}
  /\ upd = newUpdateBuilder(<<>>)
  /\ del = newDeleteBuilder(<<>>)
  /\ calls = 0
  /\ renders = 0
  /\ panicked = FALSE
  /\ out = NoOut
  /\ prev = NoOut
  /\ cond = NoCond
  /\ cpos = 0
  /\ cres = NoCres
  /\ fn = ""
  /\ input = <<>>
  /\ ret = NoRet
  /\ made = {}

ValuesGiven ==
  \E values \in GivenValueRows :
    /\ kind = "values" /\ ~panicked
    /\ Len(input) < MaxRows
    /\ valuesAppended(processedValues(values))
    /\ input' = Append(input, values)
    /\ calls' = calls + 1
    /\ out' = NoOut /\ prev' = NoOut
    /\ UNCHANGED <<made, fn, ret, dialect, kind, subs, sel, upd, del, renders, cond, cpos, cres>>

GivenValuesToSQL ==
  /\ kind = "values" /\ renders < MaxRenders /\ ~panicked
  /\ InsertRendered(insertBuilderToSQL(ins, dialect, subs, <<>>))

NextValues == ValuesGiven \/ GivenValuesToSQL

SpecValues == InitValues /\ [][NextValues]_vars

-----------------------------------------------------------------------------
(* Properties *)

(* the placeholder tokens of a text, left to right *)
Placeholders(sql) == SelectSeq(sql, LAMBDA p : p.k = "ph")

(* the values bound where the placeholders of a text were written *)
PlaceholderArgs(sql) == [i \in 1..Len(Placeholders(sql)) |-> Placeholders(sql)[i].arg]

(* C1: whenever ToSQL of a Select, Insert, Update or Delete builder returns *)
(* a nil error, under every dialect, the returned SQL has as many          *)
(* placeholders as there are returned arguments and the k-th placeholder   *)
(* from the left was written for the k-th argument.                        *)
C1_PlaceholdersAlignWithArgs ==
  (out.done /\ out.err = "") => out.args = PlaceholderArgs(out.sql)

(* a select from a subquery that binds 9, with a WHERE that binds 1        *)
C1_Witness ==
  /\ out.done /\ out.err = "" /\ kind = "select"
  /\ out.before.subquery.builder = 1
  /\ out.args = <<IntV(9), IntV(1)>>

(* C2: in the SQL returned by the first ToSQL of a freshly built builder    *)
(* under a numbered dialect, the placeholder indexes are 1, 2, 3, ... from  *)
(* left to right, none occurring twice.                                    *)
C2_NumberingFromOneNoCollision ==
  (out.done /\ out.err = "" /\ renders = 1 /\ dialect \in Numbered)
    => \A i \in 1..Len(Placeholders(out.sql)) : Placeholders(out.sql)[i].n = i

(* C3: ToSQL called twice in a row with no mutator call in between returns *)
(* the same SQL text, the same arguments and the same error both times.    *)
C3_RenderTwiceIdentical ==
  (out.done /\ prev.done)
    => (out.sql = prev.sql /\ out.args = prev.args /\ out.err = prev.err)

(* C4: Insert.ToSQL of a builder on which zero or several of the insertion *)
(* modes (Values rows, FromSelect, DefaultValues) are selected returns an  *)
(* error, empty SQL and no arguments; it succeeds only with exactly one.   *)
C4_ExactlyOneInsertionMode ==
  (out.done /\ kind = "insert")
    => /\ insertionMethods(out.before) # 1
            => (out.err # "" /\ out.sql = <<>> /\ out.args = <<>>)
       /\ out.err = "" => insertionMethods(out.before) = 1

(* Values then FromSelect on a builder with a table: the render fails      *)
C4_Witness ==
  /\ out.done /\ kind = "insert" /\ out.before.table # <<>>
  /\ Len(out.before.values) > 0 /\ out.before.fromSelect # 0
  /\ out.err = ErrManyMethods /\ out.sql = <<>>

(* C5: with a non-empty column list and at least one Values row, ToSQL    *)
(* fails with the arity error exactly when some row, at any position, has  *)
(* a length other than the column count; with an empty column list rows of *)
(* differing lengths are not rejected.                                     *)
C5_ArityOfEveryRow ==
  (out.done /\ kind = "rows" /\ Len(out.before.values) > 0)
    => IF Len(out.before.columns) > 0
       THEN out.err = ErrArity
              <=> \E i \in 1..Len(out.before.values) :
                    Len(out.before.values[i]) # Len(out.before.columns)
       ELSE out.err = ""

(* three rows under two columns, only the middle row too short             *)
C5_Witness ==
  /\ out.done /\ kind = "rows"
  /\ out.before.columns = <<ColA, ColB>>
  /\ Len(out.before.values) = 3
  /\ Len(out.before.values[1]) = 2
  /\ Len(out.before.values[2]) = 1
  /\ Len(out.before.values[3]) = 2
  /\ out.err = ErrArity

(* C6: Update.ToSQL returns an error, with empty SQL and no arguments,     *)
(* exactly when the table name is empty or no Set/SetRaw assignment was    *)
(* added, whatever Where, OrderBy, Limit and Returning calls were made.    *)
C6_UpdateNeedsTableAndSet ==
  (out.done /\ kind = "update")
    => /\ out.err # "" <=> (out.before.table = <<>> \/ Len(out.before.sets) = 0)
       /\ out.err # "" => (out.sql = <<>> /\ out.args = <<>>)

(* an update with a table and a WHERE but no assignment fails              *)
C6_Witness ==
  /\ out.done /\ kind = "update" /\ out.before.table # <<>>
  /\ Len(out.before.sets) = 0 /\ Len(out.before.where) > 0
  /\ out.err = ErrNoSet

(* whether the embedded builder in slot id of heap H cannot be rendered:   *)
(* it has no FROM source, or the builder it embeds as FROM or JOIN cannot  *)
RECURSIVE CannotRender(_, _)
CannotRender(id, H) ==
  \/ H[id].table = <<>> /\ H[id].subquery = NoSubquery
  \/ H[id].subquery # NoSubquery /\ CannotRender(H[id].subquery.builder, H)
  \/ \E i \in 1..Len(H[id].joins) :
       /\ H[id].joins[i].subquery # NoSubquery
       /\ CannotRender(H[id].joins[i].subquery.builder, H)

(* C7: Select.ToSQL fails when neither a table nor a FROM subquery is set, *)
(* and when the builder embedded as FROM subquery or as any JOIN subquery  *)
(* fails to render, at any nesting depth; it then returns empty SQL and no *)
(* arguments.                                                              *)
C7_SelectFailureIsRecursive ==
  (out.done /\ kind = "select")
    => (( \/ out.before.table = <<>> /\ out.before.subquery = NoSubquery
          \/ /\ out.before.subquery # NoSubquery
             /\ CannotRender(out.before.subquery.builder, out.H0)
          \/ \E i \in 1..Len(out.before.joins) :
               /\ out.before.joins[i].subquery # NoSubquery
               /\ CannotRender(out.before.joins[i].subquery.builder, out.H0))
        => (out.err # "" /\ out.sql = <<>> /\ out.args = <<>>))

(* a select with a table whose JOIN subquery selects from a builder that   *)
(* has no table: the failure two levels down is returned                   *)
C7_Witness ==
  /\ out.done /\ kind = "select" /\ out.before.table # <<>>
  /\ out.before.subquery = NoSubquery
  /\ \E i \in 1..Len(out.before.joins) : out.before.joins[i].subquery.builder = 4
  /\ out.err = ErrNoFrom /\ out.sql = <<>>

(* the number of LIMIT keywords in a text *)
LimitClauses(sql) == Len(SelectSeq(sql, LAMBDA p : p = Lit(" LIMIT ")[1]))

(* the counter after the WHERE clause of a delete *)
AfterWhere(db, d, H) == deleteBuildWhereClause(db, d, H).argPos

(* C8: for a Delete on which Limit(n) was called, MySQL and SQLite render  *)
(* one LIMIT clause with one placeholder and n is the last argument, after *)
(* the WHERE arguments; PostgreSQL, SQL Server and Oracle render no LIMIT  *)
(* clause, n is not among the arguments and the counter is not advanced    *)
(* for it.                                                                 *)
C8_DeleteLimitGating ==
  (out.done /\ kind = "delete" /\ out.err = "" /\ out.before.limit # NoLimit)
    => LET n == IntV(out.before.limit[1])
           w == AfterWhere(out.before, dialect, out.H0)
       IN IF dialect \in {"mysql", "sqlite"}
          THEN /\ LimitClauses(out.sql) = 1
               /\ \E i \in 1..(Len(out.sql) - 1) :
                    /\ out.sql[i] = Lit(" LIMIT ")[1]
                    /\ out.sql[i + 1].k = "ph"
                    /\ out.sql[i + 1].arg = n
                    /\ \A j \in (i + 2)..Len(out.sql) : out.sql[j].k # "ph"
               /\ Len(out.args) = Len(Placeholders(out.sql))
               /\ out.args[Len(out.args)] = n
               /\ out.after.paramCount = w + 1
          ELSE /\ LimitClauses(out.sql) = 0
               /\ \A i \in 1..Len(out.args) : out.args[i] # n
               /\ out.after.paramCount = w

(* a delete with WHERE and Limit rendered under MySQL and under PostgreSQL *)
C8_Witness ==
  /\ out.done /\ kind = "delete" /\ out.err = "" /\ out.before.limit # NoLimit
  /\ Len(out.before.where) > 0
  /\ \/ dialect = "mysql" /\ out.args = <<IntV(1), IntV(10)>>
     \/ dialect = "postgres" /\ out.args = <<IntV(1)>>

(* the arguments a condition tree contributes, as the kinds of its leaves  *)
(* say: one per comparison, none for IS NULL, IS NOT NULL and column       *)
(* comparisons, from and to for BETWEEN, those of the embedded builder for *)
(* a subquery                                                              *)
RECURSIVE Contributed(_, _, _)
Contributed(c, d, H) ==
  CASE c.t = "between" -> <<c.from, c.to>>
    [] c.t = "logical" ->
         Flatten([i \in 1..Len(c.conditions) |-> Contributed(c.conditions[i], d, H)])
    [] OTHER ->
         IF c.operator \in {"IS NULL", "IS NOT NULL"} \/ c.valueType = "column" THEN <<>>
         ELSE IF c.valueType = "subquery" THEN SQLBuilderToSQL(c.value.n, d, H).args
         ELSE <<c.value>>

(* C9: rendering any condition tree returns as many placeholders as        *)
(* arguments, the arguments in the order of their placeholders; IS NULL,   *)
(* IS NOT NULL and column-to-column leaves contribute none and BETWEEN     *)
(* contributes from, then to.                                              *)
C9_ConditionPlaceholdersMatchArgs ==
  cres.done
    => /\ cres.args = PlaceholderArgs(cres.sql)
       /\ cres.args = Contributed(cond, dialect, cres.H0)

(* a group holding an IS NULL leaf and a BETWEEN leaf is rendered          *)
C9_Witness ==
  /\ cres.done
  /\ cond = And(<<IsNull(ColA), Between(ColB, IntV(2), IntV(3))>>)
  /\ cres.args = <<IntV(2), IntV(3)>>
  /\ Len(Placeholders(cres.sql)) = 2

(* the text of a condition as the grouping rule gives it: a group of two   *)
(* or more children is its children's texts in list order, joined by the   *)
(* connective, inside one pair of parentheses; a group of one child is the *)
(* child's text                                                            *)
RECURSIVE Grouped(_, _, _, _)
RECURSIVE GroupedKids(_, _, _, _)
GroupedKids(conditions, d, argPos, H) ==
  IF conditions = <<>>
  THEN [parts |-> <<>>, argPos |-> argPos, H |-> H]
  ELSE LET r == Grouped(Head(conditions), d, argPos, H)
           rest == GroupedKids(Tail(conditions), d, r.argPos, r.H)
       IN [parts |-> <<r.sql>> \o rest.parts, argPos |-> rest.argPos, H |-> rest.H]

Grouped(c, d, argPos, H) ==
  IF c.t # "logical" \/ c.conditions = <<>>
  THEN LET r == ConditionToSQL(c, d, argPos, H)
       IN [sql |-> r.sql, argPos |-> r.argPos, H |-> r.H]
  ELSE LET r == GroupedKids(c.conditions, d, argPos, H)
       IN [sql |-> IF Len(r.parts) = 1 THEN r.parts[1]
                   ELSE Lit("(") \o Join(r.parts, Lit(" " \o c.operator \o " "))
                        \o Lit(")"),
           argPos |-> r.argPos, H |-> r.H]

(* C10: an And or Or of two or more children renders the children in list *)
(* order, joined by its connective, in exactly one pair of parentheses;   *)
(* with one child it renders the child's text without parentheses; at     *)
(* every nesting level.                                                   *)
C10_GroupParentheses ==
  (cres.done /\ cond.t = "logical" /\ Len(cond.conditions) >= 1)
    => cres.sql = Grouped(cond, dialect, cpos, cres.H0).sql

(* Or(a, And(b, c)) rendered under MySQL as (a OR (b AND c))               *)
C10_Witness ==
  /\ cres.done /\ dialect = "mysql" /\ cpos = 0
  /\ cond = Or(<<IsNull(ColA), And(<<Gt(ColB, IntV(4)), Eq(ColA, IntV(5))>>)>>)
  /\ cres.sql = Lit("(") \o EscapeIdentifier("mysql", ColA) \o Lit(" ") \o Lit("IS NULL")
                \o Lit(" OR ") \o Lit("(")
                \o EscapeIdentifier("mysql", ColB) \o Lit(" ") \o Lit(">") \o Lit(" ")
                \o Bind("mysql", 0, IntV(4)) \o Lit(" AND ")
                \o EscapeIdentifier("mysql", ColA) \o Lit(" ") \o Lit("=") \o Lit(" ")
                \o Bind("mysql", 1, IntV(5)) \o Lit(")") \o Lit(")")

(* C11: under MySQL and SQLite, Placeholder(i) is one token, the same for  *)
(* every index i >= 0, in both dialect files.                              *)
C11_SequentialPlaceholderFixed ==
  (ret.done /\ fn \in {"Placeholder", "builderPlaceholder"} /\ dialect \in {"mysql", "sqlite"})
    => ret.val = Ph("?", 0)

(* C12: under PostgreSQL, SQL Server and Oracle, Placeholder(i) for the    *)
(* counter value i is one token, numbered i + 1, in both dialect files.    *)
C12_NumberedPlaceholderIsIndexPlusOne ==
  (ret.done /\ fn \in {"Placeholder", "builderPlaceholder"} /\ dialect \in Numbered)
    => /\ Len(ret.val) = 1
       /\ ret.val[1].k = "ph"
       /\ ret.val[1].n = input + 1

(* the builder that received the calls S of the list in list order *)
RECURSIVE InListOrder(_, _, _)
InListOrder(S, i, sb) ==
  IF i > Len(SelectCalls) THEN sb
  ELSE InListOrder(S, i + 1, IF i \in S THEN selectCall(sb, SelectCalls[i]) ELSE sb)

(* the place of a piece of text in the clause sequence; 0 for other pieces *)
ClauseRank(p) ==
  CASE p = Lit("SELECT ")[1] -> 1
    [] p = Lit(" FROM ")[1] -> 2
    [] p \in {Lit(" INNER JOIN ")[1], Lit(" LEFT JOIN ")[1], Lit(" RIGHT JOIN ")[1]} -> 3
    [] p = Lit(" WHERE ")[1] -> 4
    [] p = Lit(" GROUP BY ")[1] -> 5
    [] p = Lit(" HAVING ")[1] -> 6
    [] p = Lit(" ORDER BY ")[1] -> 7
    [] p = Lit(" LIMIT ")[1] -> 8
    [] p = Lit(" OFFSET ")[1] -> 9
    [] OTHER -> 0

(* the clause keywords of a text, left to right, as their ranks *)
ClauseRanks(sql) ==
  SelectSeq([i \in 1..Len(sql) |-> ClauseRank(sql[i])], LAMBDA r : r > 0)

(* the ranks stand in clause sequence; only JOIN may repeat *)
InClauseSequence(ranks) ==
  \A i, j \in 1..Len(ranks) :
    i < j => (ranks[i] < ranks[j] \/ (ranks[i] = 3 /\ ranks[j] = 3))

(* the render o returned what the render r returns *)
SameStatement(o, r) == o.sql = r.sql /\ o.args = r.args /\ o.err = r.err

(* C13: a select builder that received the same calls in any order (calls *)
(* to the same mutator in their own order) returns the SQL and arguments   *)
(* of the builder that received them in list order, and the clauses of the *)
(* text stand in the sequence SELECT, FROM, JOINs, WHERE, GROUP BY,       *)
(* HAVING, ORDER BY, LIMIT, OFFSET.                                       *)
C13_ClauseOrderIndependentOfCallOrder ==
  (out.done /\ kind = "order")
    => /\ SameStatement(out, selectBuilderToSQL(
                               InListOrder(made, 1, newSelectBuilder(<<ColA, ColB>>)),
                               dialect, out.H0))
       /\ InClauseSequence(ClauseRanks(out.sql))
       /\ out.err = "" => out.sql[1] = Lit("SELECT ")[1]

(* every call of the list was made, From last of all, and all nine kinds   *)
(* of clause are in the text                                               *)
C13_Witness ==
  /\ out.done /\ kind = "order" /\ out.err = ""
  /\ made = DOMAIN SelectCalls
  /\ calls = 1
  /\ ClauseRanks(out.sql) = <<1, 2, 3, 3, 4, 5, 6, 7, 8, 9>>
  /\ Len(out.args) = 6

(* whether a builder b of kind k fails one of the structural checks: the   *)
(* target table or FROM source is missing, not exactly one insertion mode  *)
(* is chosen, a Values row differs in length from the column list, an      *)
(* update has no assignment, or a builder embedded as FROM, JOIN or FROM   *)
(* SELECT source cannot be rendered                                        *)
Misconfigured(k, b, H) ==
  CASE k = "select" ->
         \/ b.table = <<>> /\ b.subquery = NoSubquery
         \/ b.subquery # NoSubquery /\ CannotRender(b.subquery.builder, H)
         \/ \E i \in 1..Len(b.joins) :
              b.joins[i].subquery # NoSubquery /\ CannotRender(b.joins[i].subquery.builder, H)
    [] k = "insert" ->
         \/ b.table = <<>>
         \/ Cardinality({m \in {"values", "select", "defaults"} :
                           \/ m = "values" /\ b.values # <<>>
                           \/ m = "select" /\ b.fromSelect # 0
                           \/ m = "defaults" /\ b.useDefaults}) # 1
         \/ /\ b.columns # <<>>
            /\ \E i \in 1..Len(b.values) : Len(b.values[i]) # Len(b.columns)
         \/ b.fromSelect # 0 /\ CannotRender(b.fromSelect, H)
    [] k = "update" -> b.table = <<>> \/ b.sets = <<>>
    [] k = "delete" -> b.table = <<>>

AfterValues(sql) ==
  IF \E i \in 1..Len(sql) : sql[i] = Lit(" VALUES ")[1]
  THEN SubSeq(sql, 1 + (CHOOSE i \in 1..Len(sql) : sql[i] = Lit(" VALUES ")[1]), Len(sql))
  ELSE <<>>

(* the pieces of a text that stand for values: placeholders and raw text *)
ValuePieces(sql) == SelectSeq(sql, LAMBDA p : p.k \in {"ph", "txt"})

(* what the values vs stand for when the counter is at counter: a raw      *)
(* value its text, any other value the placeholder of the next index       *)
RECURSIVE SplicedOrBound(_, _, _)
SplicedOrBound(vs, d, counter) ==
  IF vs = <<>> THEN <<>>
  ELSE IF Head(vs).tag = "rawSQL"
  THEN Txt(Head(vs).cs) \o SplicedOrBound(Tail(vs), d, counter)
  ELSE Bind(d, counter, Head(vs)) \o SplicedOrBound(Tail(vs), d, counter + 1)

(* C15: in the VALUES rows of a rendered insert, a Raw or UnsafeRaw value  *)
(* is written as its text, with no placeholder, no argument and no move of *)
(* the counter; every other value is written as the placeholder of the     *)
(* next index, is the next argument and moves the counter by one.          *)
C15_RawValuesSplicedOthersBound ==
  (out.done /\ kind = "rows" /\ out.err = "")
    => /\ ValuePieces(AfterValues(out.sql))
            = SplicedOrBound(Flatten(out.before.values), dialect, out.before.paramCounter)
       /\ out.args = SelectSeq(Flatten(out.before.values), LAMBDA v : v.tag # "rawSQL")
       /\ out.after.paramCounter = out.before.paramCounter + Len(out.args)

(* a row of a value, a raw text and a value after a row that binds one     *)
(* value, under PostgreSQL: the placeholders are $1, $2, $3                *)
C15_Witness ==
  /\ out.done /\ kind = "rows" /\ out.err = "" /\ dialect = "postgres" /\ renders = 1
  /\ out.before.values = <<<<IntV(1)>>, <<IntV(4), UnsafeRaw(NowText), IntV(5)>>>>
  /\ ValuePieces(AfterValues(out.sql))
       = Bind("postgres", 0, IntV(1)) \o Bind("postgres", 1, IntV(4)) \o Txt(NowText)
         \o Bind("postgres", 2, IntV(5))
  /\ out.args = <<IntV(1), IntV(4), IntV(5)>>

(* the words of a text: its longest runs of letters, digits and underscores *)
Words(cs) ==
  {SubSeq(cs, i, j) : <<i, j>> \in
     {ij \in (1..Len(cs)) \X (1..Len(cs)) :
        /\ ij[1] <= ij[2]
        /\ \A k \in ij[1]..ij[2] : IsWordChar(cs[k])
        /\ (ij[1] = 1 \/ ~IsWordChar(cs[ij[1] - 1]))
        /\ (ij[2] = Len(cs) \/ ~IsWordChar(cs[ij[2] + 1]))}}

(* two characters are the same letter, in either case *)
SameLetter(a, b) ==
  a = b \/ \E i \in DOMAIN LowerLetters : {a, b} = {LowerLetters[i], UpperLetters[i]}

(* some word of the text is one of the five keywords, in any letter case *)
HasKeywordWord(cs) ==
  \E w \in Words(cs) : \E kw \in Keywords :
    Len(w) = Len(kw) /\ \A k \in 1..Len(kw) : SameLetter(w[k], kw[k])

(* C16: Raw(text) panics, returning no raw value, exactly when the text    *)
(* holds DROP, DELETE, INSERT, UPDATE or ALTER as a whole word in any      *)
(* letter case, and otherwise returns the text as a raw value; UnsafeRaw   *)
(* returns the text as a raw value for every text.                         *)
C16_RawScreensKeywords ==
  /\ (ret.done /\ fn = "Raw")
       => /\ panicked <=> HasKeywordWord(input)
          /\ ret.val = IF HasKeywordWord(input) THEN Panic ELSE rawSQL(input, FALSE)
  /\ (ret.done /\ fn = "UnsafeRaw") => (~panicked /\ ret.val = rawSQL(input, TRUE))

(* Raw panics on a lower-case delete between punctuation and a space *)
C16_Witness ==
  /\ ret.done /\ fn = "Raw" /\ panicked
  /\ input = <<"a", ";", "d", "e", "l", "e", "t", "e", " ", "b">>

(* the names the model hands to the builders as identifiers: columns, the  *)
(* target tables and the subquery aliases                                  *)
IdentifierNames == {ColA, ColB, <<"t">>, <<"u">>, <<"s">>, <<"n">>}

(* caller text that is not an identifier: raw expressions and JOIN tables  *)
NotIdentifiers == {NowText, <<"j">>}

(* C17: every identifier in the SQL a statement builder returns (target    *)
(* table, selected, inserted, SET, GROUP BY, ORDER BY and RETURNING        *)
(* columns, ON CONFLICT target, subquery aliases) is written as the        *)
(* dialect's EscapeIdentifier of the name, never as the bare name.         *)
C17_IdentifiersEscaped ==
  (out.done /\ kind \in Kinds /\ out.err = "")
    => \A i \in 1..Len(out.sql) :
         (out.sql[i].k = "txt" /\ out.sql[i].cs \notin NotIdentifiers)
           => \E name \in IdentifierNames : <<out.sql[i]>> = EscapeIdentifier(dialect, name)

(* the places of a piece in a text *)
PlacesOf(sql, p) == {i \in 1..Len(sql) : sql[i] = p}

(* the text ends with LIMIT and the placeholder of n, after every WHERE    *)
(* and ORDER BY keyword and before nothing but a RETURNING clause          *)
EndsWithLimit(sql, n) ==
  \E i \in PlacesOf(sql, Lit(" LIMIT ")[1]) :
    /\ i < Len(sql)
    /\ sql[i + 1].k = "ph" /\ sql[i + 1].arg = n
    /\ \A j \in PlacesOf(sql, Lit(" WHERE ")[1]) \cup PlacesOf(sql, Lit(" ORDER BY ")[1]) : j < i
    /\ \A j \in (i + 2)..Len(sql) : sql[j].k # "ph"
    /\ (i + 2 <= Len(sql)) => sql[i + 2] = Lit(" RETURNING ")[1]

(* the render o of the builder b is the render r, and leaves the counter r *)
(* leaves                                                                  *)
SameRender(o, r) ==
  /\ o.sql = r.sql /\ o.args = r.args /\ o.err = r.err
  /\ o.after.paramCount = r.b.paramCount

(* C18: for an Update on which Limit(n) was called, MySQL and SQLite write *)
(* one LIMIT clause with one placeholder after WHERE and ORDER BY and n is *)
(* the last argument; the other dialects write no LIMIT, return no error,  *)
(* leave n out of the arguments and the counter alone: the render is the   *)
(* one of the same builder without Limit.                                  *)
C18_UpdateLimitGating ==
  (out.done /\ kind = "update" /\ out.err = "" /\ out.before.limit # NoLimit)
    => IF dialect \in {"mysql", "sqlite"}
       THEN /\ LimitClauses(out.sql) = 1
            /\ EndsWithLimit(out.sql, IntV(out.before.limit[1]))
            /\ out.args # <<>> /\ out.args[Len(out.args)] = IntV(out.before.limit[1])
            /\ Len(out.args) = Len(Placeholders(out.sql))
       ELSE /\ LimitClauses(out.sql) = 0
            /\ \A i \in 1..Len(out.args) : out.args[i] # IntV(out.before.limit[1])
            /\ SameRender(out, updateBuilderToSQL([out.before EXCEPT !.limit = NoLimit],
                                                   dialect, out.H0))

(* an update with a Set, a WHERE and Limit under MySQL, where 10 is bound  *)
(* last, and under PostgreSQL, where it is not bound                       *)
C18_Witness ==
  /\ out.done /\ kind = "update" /\ out.err = "" /\ out.before.limit # NoLimit
  /\ out.before.where = <<Eq(ColA, IntV(1))>>
  /\ \/ dialect = "mysql" /\ out.args = <<IntV(1), IntV(1), IntV(10)>>
     \/ dialect = "postgres" /\ out.args = <<IntV(1), IntV(1)>>

(* the text names the columns cols in order, separated by commas, each as  *)
(* the dialect's identifier or as the name itself                          *)
NamesInOrder(text, cols, d) ==
  /\ Len(text) = 2 * Len(cols) - 1
  /\ \A k \in 1..Len(cols) :
       <<text[2 * k - 1]>> \in {EscapeIdentifier(d, cols[k]), Txt(cols[k])}
  /\ \A k \in 1..(Len(cols) - 1) : <<text[2 * k]>> = Lit(", ")

(* the text ends with one RETURNING clause that lists cols *)
EndsWithReturning(sql, cols, d) ==
  /\ Cardinality(PlacesOf(sql, Lit(" RETURNING ")[1])) = 1
  /\ \E i \in PlacesOf(sql, Lit(" RETURNING ")[1]) :
       NamesInOrder(SubSeq(sql, i + 1, Len(sql)), cols, d)

(* C19: an Update or Delete on which Returning was called with columns     *)
(* ends with a RETURNING clause listing them in call order exactly under   *)
(* PostgreSQL and SQLite; under MySQL, SQL Server and Oracle no RETURNING  *)
(* is written, and the call makes no render fail.                          *)
C19_ReturningGating ==
  (out.done /\ kind \in {"update", "delete"} /\ out.before.returning # <<>>)
    => /\ out.err = ""
            => IF dialect \in {"postgres", "sqlite"}
               THEN EndsWithReturning(out.sql, out.before.returning, dialect)
               ELSE PlacesOf(out.sql, Lit(" RETURNING ")[1]) = {}
       /\ out.err # "" => Misconfigured(kind, out.before, out.H0)

(* a delete with a WHERE and Returning(a, b) under SQLite, and an update   *)
(* with a Set and Returning(a, b) under MySQL                              *)
C19_Witness ==
  /\ out.done /\ out.err = "" /\ kind \in {"update", "delete"}
  /\ out.before.returning = <<ColA, ColB>>
  /\ \/ /\ kind = "delete" /\ dialect = "sqlite" /\ out.before.where # <<>>
        /\ EndsWithReturning(out.sql, <<ColA, ColB>>, dialect)
     \/ /\ kind = "update" /\ dialect = "mysql"
        /\ PlacesOf(out.sql, Lit(" RETURNING ")[1]) = {}

(* the text from the ON CONFLICT keyword up to RETURNING or the end, the   *)
(* keyword left out                                                        *)
ConflictClause(sql) ==
  SubSeq(sql,
         1 + (CHOOSE i \in 1..Len(sql) : sql[i] = Lit(" ON CONFLICT")[1]),
         IF PlacesOf(sql, Lit(" RETURNING ")[1]) = {} THEN Len(sql)
         ELSE (CHOOSE i \in 1..Len(sql) : sql[i] = Lit(" RETURNING ")[1]) - 1)

(* the text before the ON CONFLICT keyword *)
BeforeConflict(sql) ==
  SubSeq(sql, 1, (CHOOSE i \in 1..Len(sql) : sql[i] = Lit(" ON CONFLICT")[1]) - 1)

(* the parenthesised target that opens the clause, if there is one *)
TargetText(target, d) == IF target = <<>> THEN {<<>>}
                         ELSE {Lit(" (") \o t \o Lit(")") : t \in {Txt(target), EscapeIdentifier(d, target)}}

(* text is DO UPDATE SET followed by one assignment per entry of the map   *)
(* m, each a column, an equals sign and the placeholder that binds the     *)
(* column's value, numbered base + 1, base + 2, ... in the text            *)
DoUpdateText(text, m, d, base) ==
  /\ Len(text) = 4 * Cardinality(DOMAIN m)
  /\ text[1] = Lit(" DO UPDATE SET ")[1]
  /\ \A k \in 1..Cardinality(DOMAIN m) :
       /\ \E c \in DOMAIN m :
            /\ <<text[4 * k - 2]>> \in {Txt(c), EscapeIdentifier(d, c)}
            /\ text[4 * k].arg = m[c]
       /\ text[4 * k - 1] = Lit(" = ")[1]
       /\ text[4 * k].k = "ph"
       /\ d \in Numbered => text[4 * k].n = base + k
       /\ k > 1 => text[4 * k - 3] = Lit(", ")[1]
  /\ \A c \in DOMAIN m : \E k \in 1..Cardinality(DOMAIN m) :
       <<text[4 * k - 2]>> \in {Txt(c), EscapeIdentifier(d, c)}

(* the clause text stands for the conflict action ca *)
ConflictText(text, ca, d, base) ==
  \E t \in TargetText(ca.Target, d) :
    /\ Len(text) >= Len(t) /\ SubSeq(text, 1, Len(t)) = t
    /\ IF ca.DoNothing
       THEN SubSeq(text, Len(t) + 1, Len(text)) = Lit(" DO NOTHING")
       ELSE IF DOMAIN ca.DoUpdate # {}
       THEN DoUpdateText(SubSeq(text, Len(t) + 1, Len(text)), ca.DoUpdate, d, base)
       ELSE Len(text) = Len(t)

(* C20: an insert with OnConflict writes ON CONFLICT, the target in        *)
(* parentheses when it is not empty, then DO NOTHING when DoNothing is set *)
(* (the DoUpdate map then binds nothing), DO UPDATE SET with one           *)
(* placeholder and one argument per map entry, bound to the entry's value  *)
(* and numbered after the VALUES placeholders, when only DoUpdate is set,  *)
(* and nothing more when neither is set.                                   *)
C20_OnConflictClause ==
  (out.done /\ kind = "insert" /\ out.err = "" /\ out.before.conflict.set)
    => /\ Cardinality(PlacesOf(out.sql, Lit(" ON CONFLICT")[1])) = 1
       /\ ConflictText(ConflictClause(out.sql), out.before.conflict, dialect,
                       out.before.paramCounter
                         + Len(Placeholders(AfterValues(BeforeConflict(out.sql)))))
       /\ out.args = PlaceholderArgs(BeforeConflict(out.sql))
                       \o PlaceholderArgs(ConflictClause(out.sql))

(* a row of two values and DO UPDATE SET of two columns under PostgreSQL:  *)
(* the assignments hold $3 and $4                                          *)
C20_Witness ==
  /\ out.done /\ kind = "insert" /\ out.err = "" /\ dialect = "postgres" /\ renders = 1
  /\ out.before.values = <<<<IntV(1), IntV(2)>>>>
  /\ out.before.conflict = ConflictAction(ColA, FALSE, [c \in {ColA, ColB} |->
                                                         IF c = ColA THEN IntV(6) ELSE IntV(7)])
  /\ out.args = <<IntV(1), IntV(2), IntV(7), IntV(6)>>
  /\ Placeholders(out.sql)[4].n = 4

(* the direction the rule gives for a direction as it was passed in *)
NormalDirection(direction) ==
  CASE direction = "ASC" -> "ASC"
    [] direction = "DESC" -> "DESC"
    [] OTHER -> "ASC"

(* the ORDER BY list of the builder fn names *)
OrderByOf(b) ==
  CASE b = "select" -> sel.orderBy
    [] b = "update" -> upd.orderBy
    [] b = "delete" -> del.orderBy

(* the list holds the given entries in call order, directions normalized *)
RecordedAsGiven(orderBy, given) ==
  /\ Len(orderBy) = Len(given)
  /\ \A i \in 1..Len(given) :
       /\ orderBy[i].column = given[i].column
       /\ orderBy[i].direction = NormalDirection(given[i].direction)

(* text is the given entries in call order, each a column (as the name or  *)
(* as the dialect's identifier), a space and the normalized direction,      *)
(* with a comma between entries                                             *)
OrderByText(text, given, d) ==
  /\ Len(text) = 4 * Len(given) - 1
  /\ \A i \in 1..Len(given) :
       /\ <<text[4 * i - 3]>> \in {Txt(given[i].column), EscapeIdentifier(d, given[i].column)}
       /\ <<text[4 * i - 2]>> = Lit(" ")
       /\ <<text[4 * i - 1]>> = Lit(NormalDirection(given[i].direction))
       /\ i < Len(given) => <<text[4 * i]>> = Lit(", ")

(* the text ends with one ORDER BY clause that lists the given entries *)
EndsWithOrderBy(sql, given, d) ==
  /\ Cardinality(PlacesOf(sql, Lit(" ORDER BY ")[1])) = 1
  /\ \E i \in PlacesOf(sql, Lit(" ORDER BY ")[1]) :
       OrderByText(SubSeq(sql, i + 1, Len(sql)), given, d)

(* C21: on a Select, Update or Delete builder, OrderBy records each given  *)
(* direction unchanged when it is exactly ASC or DESC and as ASC otherwise *)
(* (asc, desc and the empty string included), in call order; a render that *)
(* writes ORDER BY lists the entries comma-separated in call order with     *)
(* those directions, and Select and Update always write it.                 *)
C21_OrderByDirectionNormalized ==
  kind = "orderby"
    => /\ ~out.done => RecordedAsGiven(OrderByOf(fn), input)
       /\ (out.done /\ input # <<>>)
            => /\ out.err = ""
               /\ RecordedAsGiven(out.before.orderBy, input)
               /\ IF fn = "delete" /\ PlacesOf(out.sql, Lit(" ORDER BY ")[1]) = {}
                  THEN dialect \notin {"mysql", "sqlite"}
                  ELSE EndsWithOrderBy(out.sql, input, dialect)

(* OrderBy(b, desc) then OrderBy(a, DESC) on an update under PostgreSQL    *)
(* renders ORDER BY "b" ASC, "a" DESC                                      *)
C21_Witness ==
  /\ kind = "orderby" /\ fn = "update" /\ dialect = "postgres" /\ out.done /\ out.err = ""
  /\ input = <<[column |-> ColB, direction |-> "desc"], [column |-> ColA, direction |-> "DESC"]>>
  /\ \E i \in PlacesOf(out.sql, Lit(" ORDER BY ")[1]) :
       SubSeq(out.sql, i + 1, Len(out.sql))
         = EscapeIdentifier("postgres", ColB) \o Lit(" ") \o Lit("ASC") \o Lit(", ")
           \o EscapeIdentifier("postgres", ColA) \o Lit(" ") \o Lit("DESC")

(* a comparison with an embedded builder *)
IsSubqueryLeaf(c) == c.t = "base" /\ c.valueType = "subquery"

(* the number of values the leaves of a tree bind themselves: one per      *)
(* comparison with a value, two per BETWEEN, none for the other leaves     *)
RECURSIVE OwnValues(_)
OwnValues(c) ==
  CASE c.t = "between" -> 2
    [] c.t = "logical" ->
         IF c.conditions = <<>> THEN 0
         ELSE OwnValues(Head(c.conditions))
              + OwnValues([c EXCEPT !.conditions = Tail(c.conditions)])
    [] OTHER ->
         IF c.operator \in {"IS NULL", "IS NOT NULL"} \/ c.valueType \in {"column", "subquery"}
         THEN 0 ELSE 1

(* the render r of a subquery leaf c at counter argPos is the column, the  *)
(* operator and the render inner of the embedded builder in parentheses,   *)
(* with the arguments of inner and the counter where it was                *)
SubqueryRendered(r, c, d, argPos, inner) ==
  /\ r.sql = EscapeIdentifier(d, c.column) \o Lit(" ") \o Lit(c.operator) \o Lit(" ")
             \o Lit("(") \o inner.sql \o Lit(")")
  /\ r.args = inner.args
  /\ r.argPos = argPos

(* the placeholders of a text are numbered base + 1, base + 2, ... *)
NumberedFrom(sql, base) ==
  \A i \in 1..Len(Placeholders(sql)) : Placeholders(sql)[i].n = base + i

(* the render r of a group of a subquery leaf and a condition c2 is the    *)
(* render first of the leaf followed by the render of c2 at the counter    *)
(* the group was given                                                     *)
FollowedAtSameIndex(r, operator, first, second) ==
  /\ r.sql = Lit("(") \o first.sql \o Lit(" " \o operator \o " ") \o second.sql \o Lit(")")
  /\ r.args = first.args \o second.args
  /\ r.argPos = second.argPos

(* C22: rendering a subquery-valued comparison returns the counter it was  *)
(* given; its text is the embedded builder's SQL in parentheses after the  *)
(* column and operator, its arguments are the embedded builder's, and the  *)
(* embedded placeholders are numbered from the embedded builder's own      *)
(* counter; a condition that follows it in a group is rendered as it is    *)
(* at the counter the group was given, and the counter after any tree is   *)
(* the counter before plus the values its own leaves bind.                 *)
C22_SubqueryLeavesCounterAlone ==
  cres.done
    => /\ cres.argPos = cpos + OwnValues(cond)
       /\ IsSubqueryLeaf(cond)
            => /\ SubqueryRendered(cres, cond, dialect, cpos,
                                   SQLBuilderToSQL(cond.value.n, dialect, cres.H0))
               /\ dialect \in Numbered
                    => NumberedFrom(SQLBuilderToSQL(cond.value.n, dialect, cres.H0).sql,
                                    cres.H0[cond.value.n].paramCount)
       /\ (cond.t = "logical" /\ Len(cond.conditions) = 2 /\ IsSubqueryLeaf(cond.conditions[1]))
            => FollowedAtSameIndex(cres, cond.operator,
                 ConditionToSQL(cond.conditions[1], dialect, cpos, cres.H0),
                 ConditionToSQL(cond.conditions[2], dialect, cpos,
                                ConditionToSQL(cond.conditions[1], dialect, cpos, cres.H0).H))

(* a = (subquery) AND a = 1 rendered under PostgreSQL with the counter at  *)
(* 2: the subquery holds $1 and the value condition $3                     *)
C22_Witness ==
  /\ cres.done /\ dialect = "postgres" /\ cpos = 2
  /\ cond = And(<<EqSubquery(ColA, 1), Eq(ColA, IntV(1))>>)
  /\ cres.args = <<IntV(9), IntV(1)>>
  /\ Placeholders(cres.sql)[1].n = 1
  /\ Placeholders(cres.sql)[2].n = 3
  /\ cres.argPos = 3

(* some condition of the list compares with an embedded builder that       *)
(* cannot be rendered                                                      *)
HasFailingSubquery(conditions, H) ==
  \E i \in 1..Len(conditions) :
    IsSubqueryLeaf(conditions[i]) /\ CannotRender(conditions[i].value.n, H)

(* C23: when the WHERE of a Select, Update or Delete that passes its own   *)
(* structural checks holds a subquery-valued comparison whose embedded     *)
(* builder fails to render, ToSQL returns the embedded builder's error and *)
(* no SQL text.                                                            *)
C23_ConditionSubqueryFailurePropagates ==
  (/\ out.done /\ kind \in {"select", "update", "delete"}
   /\ ~Misconfigured(kind, out.before, out.H0)
   /\ HasFailingSubquery(out.before.where, out.H0))
    => (out.err = ErrNoFrom /\ out.sql = <<>> /\ out.args = <<>>)

(* the delete builder that received the calls S of the list in list order *)
RECURSIVE InDeleteListOrder(_, _, _)
InDeleteListOrder(S, i, db) ==
  IF i > Len(DeleteCalls) THEN db
  ELSE InDeleteListOrder(S, i + 1, IF i \in S THEN deleteCall(db, DeleteCalls[i]) ELSE db)

(* the place of a piece of text in the clause sequence of a DELETE; 0 for  *)
(* other pieces                                                            *)
DeleteClauseRank(p) ==
  CASE p = Lit("DELETE FROM ")[1] -> 1
    [] p \in {Lit(" INNER JOIN ")[1], Lit(" LEFT JOIN ")[1], Lit(" RIGHT JOIN ")[1]} -> 3
    [] p = Lit(" WHERE ")[1] -> 4
    [] p = Lit(" ORDER BY ")[1] -> 7
    [] p = Lit(" LIMIT ")[1] -> 8
    [] p = Lit(" RETURNING ")[1] -> 10
    [] OTHER -> 0

DeleteClauseRanks(sql) ==
  SelectSeq([i \in 1..Len(sql) |-> DeleteClauseRank(sql[i])], LAMBDA r : r > 0)

(* the JOIN keywords of a text, left to right *)
JoinKeywords(sql) == SelectSeq(sql, LAMBDA p : DeleteClauseRank(p) = 3)

(* the JOIN keywords are those of the join list, in list order *)
JoinsInCallOrder(keywords, joins) ==
  /\ Len(keywords) = Len(joins)
  /\ \A i \in 1..Len(joins) : <<keywords[i]>> = Lit(" " \o joins[i].joinType \o " JOIN ")

(* C24: a delete renders DELETE FROM table, the JOINs in call order, WHERE, *)
(* ORDER BY, LIMIT and RETURNING in that sequence whatever the order of    *)
(* the mutator calls was; ToSQL fails exactly when the table is empty; and *)
(* ORDER BY is written exactly when entries were given and the dialect is  *)
(* MySQL or SQLite.                                                        *)
C24_DeleteClauseOrder ==
  (out.done /\ kind = "deleteorder")
    => /\ out.err # "" <=> out.before.table = <<>>
       /\ SameStatement(out, deleteBuilderToSQL(
                               InDeleteListOrder(made, 1, newDeleteBuilder(<<>>)),
                               dialect, out.H0))
       /\ out.err = ""
            => /\ out.sql[1] = Lit("DELETE FROM ")[1]
               /\ <<out.sql[2]>> \in {Txt(out.before.table),
                                       EscapeIdentifier(dialect, out.before.table)}
               /\ InClauseSequence(DeleteClauseRanks(out.sql))
               /\ JoinsInCallOrder(JoinKeywords(out.sql), out.before.joins)
               /\ PlacesOf(out.sql, Lit(" ORDER BY ")[1]) # {}
                    <=> (out.before.orderBy # <<>> /\ dialect \in {"mysql", "sqlite"})

(* every call of the list was made, From last of all: under MySQL the text *)
(* holds DELETE FROM, two JOINs, WHERE, ORDER BY and LIMIT; under          *)
(* PostgreSQL DELETE FROM, two JOINs, WHERE and RETURNING                  *)
C24_Witness ==
  /\ out.done /\ kind = "deleteorder" /\ out.err = ""
  /\ made = DOMAIN DeleteCalls
  /\ calls = 1
  /\ \/ dialect = "mysql" /\ DeleteClauseRanks(out.sql) = <<1, 3, 3, 4, 7, 8>>
     \/ dialect = "postgres" /\ DeleteClauseRanks(out.sql) = <<1, 3, 3, 4, 10>>

(* the parameter counter of a builder b of kind k *)
CounterOf(k, b) == IF k = "insert" THEN b.paramCounter ELSE b.paramCount

(* some leaf of the tree compares with an embedded builder *)
RECURSIVE HasSubqueryLeaf(_)
HasSubqueryLeaf(c) ==
  CASE c.t = "between" -> FALSE
    [] c.t = "logical" -> \E i \in 1..Len(c.conditions) : HasSubqueryLeaf(c.conditions[i])
    [] OTHER -> c.valueType = "subquery"

(* the builder b of kind k embeds no other builder *)
NoEmbedded(k, b) ==
  CASE k = "select" ->
         /\ b.subquery = NoSubquery
         /\ \A i \in 1..Len(b.joins) : b.joins[i].subquery = NoSubquery
         /\ ~HasSubqueryLeaf(And(b.where)) /\ ~HasSubqueryLeaf(And(b.having))
    [] k = "insert" -> b.fromSelect = 0
    [] OTHER -> ~HasSubqueryLeaf(And(b.where))

(* the number of values the clauses of the builder b itself bind in one    *)
(* render under dialect d, as the clauses it holds say                     *)
OwnBinds(k, b, d) ==
  CASE k = "select" ->
         OwnValues(And(b.where)) + OwnValues(And(b.having))
         + (IF b.limit # NoLimit THEN 1 ELSE 0) + (IF b.offset # NoLimit THEN 1 ELSE 0)
    [] k = "insert" ->
         Len(SelectSeq(Flatten(b.values), LAMBDA v : v.tag # "rawSQL"))
         + (IF b.conflict.set /\ ~b.conflict.DoNothing
            THEN Cardinality(DOMAIN b.conflict.DoUpdate) ELSE 0)
    [] k = "update" ->
         Len(SelectSeq(b.sets, LAMBDA set : ~set.isRaw)) + OwnValues(And(b.where))
         + (IF b.limit # NoLimit /\ d \in {"mysql", "sqlite"} THEN 1 ELSE 0)
    [] k = "delete" ->
         OwnValues(And(b.where))
         + (IF b.limit # NoLimit /\ d \in {"mysql", "sqlite"} THEN 1 ELSE 0)

(* C25: a successful ToSQL leaves the builder's counter at its value       *)
(* before plus the m values the builder's own clauses bind; the counter is *)
(* 0 before the first render and is not reset between renders, so after a  *)
(* second successful render in a row it is 2 * m, and under a numbered     *)
(* dialect the placeholders of a builder that embeds no other builder are  *)
(* numbered from the counter before the render plus 1 (from m + 1 on the   *)
(* second render).                                                         *)
C25_CounterNeverReset ==
  (out.done /\ kind \in Kinds /\ out.err = "")
    => /\ CounterOf(kind, out.after)
            = CounterOf(kind, out.before) + OwnBinds(kind, out.before, dialect)
       /\ renders = 1 => CounterOf(kind, out.before) = 0
       /\ (prev.done /\ prev.err = "")
            => CounterOf(kind, out.before) = CounterOf(kind, prev.after)
       /\ (prev.done /\ prev.err = "" /\ renders = 2)
            => CounterOf(kind, out.after) = 2 * OwnBinds(kind, out.before, dialect)
       /\ (dialect \in Numbered /\ NoEmbedded(kind, out.before))
            => NumberedFrom(out.sql, CounterOf(kind, out.before))

(* the second render in a row of a delete with one value in its WHERE      *)
(* under PostgreSQL holds $2 and leaves the counter at 2                   *)
C25_Witness ==
  /\ out.done /\ prev.done /\ kind = "delete" /\ dialect = "postgres" /\ renders = 2
  /\ out.err = "" /\ prev.err = ""
  /\ out.before.where = <<Eq(ColA, IntV(1))>>
  /\ Placeholders(prev.sql)[1].n = 1
  /\ Placeholders(out.sql)[1].n = 2
  /\ out.after.paramCount = 2

(* the builder after of kind k is the builder before in everything but the *)
(* parameter counter                                                       *)
SameClauseState(k, before, after) ==
  IF k = "insert"
  THEN after = [before EXCEPT !.paramCounter = after.paramCounter]
  ELSE after = [before EXCEPT !.paramCount = after.paramCount]

(* C26: ToSQL, successful or failing, leaves every field of the builder    *)
(* but the parameter counter as the mutator calls set it, and a successful *)
(* render that follows a successful render with no mutator call in between *)
(* returns the same argument list.                                         *)
C26_ToSQLKeepsClauseState ==
  (out.done /\ kind \in Kinds)
    => /\ SameClauseState(kind, out.before, out.after)
       /\ (prev.done /\ prev.err = "" /\ out.err = "") => out.args = prev.args

(* C27: a ToSQL that returns an error returns empty SQL and no arguments   *)
(* and leaves the builder it was called on as it was, its parameter        *)
(* counter included: whatever the builder would have bound is not counted, *)
(* so what a later render numbers depends on the successful renders alone. *)
C27_FailedRenderLeavesCounter ==
  (out.done /\ kind \in Kinds /\ out.err # "")
    => /\ out.sql = <<>> /\ out.args = <<>>
       /\ CounterOf(kind, out.after) = CounterOf(kind, out.before)
       /\ out.after = out.before

(* an insert whose FROM SELECT source cannot be rendered and whose DO      *)
(* UPDATE would bind two values fails with the counter still at 0, and a   *)
(* delete rendered once with one value, then given an empty table, fails   *)
(* with the counter still at 1                                             *)
C27_Witness ==
  /\ out.done /\ out.err # ""
  /\ \/ /\ kind = "insert" /\ out.before.fromSelect = 2 /\ out.err = ErrNoFrom
        /\ Cardinality(DOMAIN out.before.conflict.DoUpdate) = 2
        /\ out.after.paramCounter = 0
     \/ /\ kind = "delete" /\ renders = 2 /\ out.err = ErrNoTable
        /\ out.before.where = <<Eq(ColA, IntV(1))>>
        /\ out.after.paramCount = 1

(* the keyword is in the text only if the list or pointer it renders was   *)
(* set                                                                     *)
OnlyWhenSet(sql, keyword, isSet) == PlacesOf(sql, Lit(keyword)[1]) # {} => isSet

(* C28: the SQL of a Select that embeds no other builder holds GROUP BY    *)
(* only when GroupBy supplied a column, and likewise WHERE, HAVING, ORDER  *)
(* BY, LIMIT and OFFSET only when the corresponding mutator supplied an    *)
(* entry.                                                                  *)
C28_OptionalClausesOnlyWhenSet ==
  (out.done /\ kind = "select" /\ out.err = "" /\ NoEmbedded("select", out.before))
    => /\ OnlyWhenSet(out.sql, " GROUP BY ", out.before.groupBy # <<>>)
       /\ OnlyWhenSet(out.sql, " WHERE ", out.before.where # <<>>)
       /\ OnlyWhenSet(out.sql, " HAVING ", out.before.having # <<>>)
       /\ OnlyWhenSet(out.sql, " ORDER BY ", out.before.orderBy # <<>>)
       /\ OnlyWhenSet(out.sql, " LIMIT ", out.before.limit # NoLimit)
       /\ OnlyWhenSet(out.sql, " OFFSET ", out.before.offset # NoLimit)

(* the piece of text that follows the first FROM keyword *)
FromSource(sql) == sql[1 + CHOOSE i \in PlacesOf(sql, Lit(" FROM ")[1]) :
                             \A j \in PlacesOf(sql, Lit(" FROM ")[1]) : i <= j]

(* C29: the FROM source of a Select is the one the most recent of From and *)
(* FromSubquery set.  FromSubquery empties the table name, so a non-empty  *)
(* table name beside a subquery means From(t) was called after            *)
(* FromSubquery: the text then has FROM t and none of the subquery's       *)
(* arguments; with an empty table name it has the subquery in parentheses. *)
C29_LatestFromSourceWins ==
  (out.done /\ kind = "select" /\ out.err = "")
    => IF out.before.table # <<>>
       THEN /\ <<FromSource(out.sql)>>
                 \in {Txt(out.before.table), EscapeIdentifier(dialect, out.before.table)}
            /\ NoEmbedded("select", [out.before EXCEPT !.subquery = NoSubquery])
                 => Len(out.args) = OwnBinds("select", out.before, dialect)
       ELSE <<FromSource(out.sql)>> = Lit("(")


IsRawValue(v) == v.tag = "rawSQL"

(* the values of the given argument lists that Raw and UnsafeRaw did not   *)
(* make, in call order                                                     *)
GivenToBind(given) == SelectSeq(Flatten(given), LAMBDA v : ~IsRawValue(v))

StoredAsGiven(given, stored) ==
  /\ Len(stored) = Len(given)
  /\ \A i \in 1..Len(given) :
       /\ Len(stored[i]) = Len(given[i])
       /\ \A j \in 1..Len(given[i]) : ~IsRawValue(given[i][j]) => stored[i][j] = given[i][j]

BoundAsGiven(given, sql, args) ==
  /\ args = GivenToBind(given)
  /\ Len(SelectSeq(AfterValues(sql), LAMBDA p : p.k = "ph")) = Len(GivenToBind(given))

(* C30: a value passed to Insert.Values that Raw or UnsafeRaw did not make *)
(* is stored as it was given and a render binds it: one placeholder and    *)
(* the value itself among the arguments; a string is never taken for SQL   *)
(* text, and Values does not panic for such values.                        *)
C30_PlainValuesStoredAndBound ==
  kind = "values"
    => /\ ~panicked
       /\ StoredAsGiven(input, ins.values)
       /\ (out.done /\ out.err = "") => BoundAsGiven(input, out.sql, out.args)

=============================================================================
